---- MODULE Spec2Model ----
(***************************************************************************)
(* Balance-consistency engine of the budget application.                   *)
(*                                                                         *)
(* The stored state is the four ledger tables (BankAccount, Income,        *)
(* Expense, Transfer) of budget/models.py.  Every operation is one of the  *)
(* request handlers of budget/views.py: the handler validates its form     *)
(* (budget/forms.py) and then calls the save()/delete() method of the      *)
(* model, which moves the account balances.                                *)
(*                                                                         *)
(* Amounts are integers (an amount in cents); dates are small integers.    *)
(* A table is a function from primary keys to rows; a row that was never   *)
(* inserted is "free", a deleted row is "gone" (keys are not reused).      *)
(***************************************************************************)
EXTENDS Integers, FiniteSets, Sequences, TLC

\* ---------------------------------------------------------------- bounds
MaxAccts == 3
MaxIncomes == 2
MaxExpenses == 2
MaxTransfers == 2
MaxAmt == 2
MaxDate == 2
MaxSteps == 4
OpSteps == 2
AcctSteps == 2
MaxRuns == 2
HistSteps == 3
FormSteps == 2
MaxUsers == 2
TenantSteps == 1
MaxBudgets == 1
MaxMonths == 2
DaysPerMonth == 2
BudgetSteps == 1
OrphanSteps == 2
DailySteps == 2

\* ------------------------------------------------------- absent references
\* A NULL foreign key (Income.bank_account, Expense.bank_account).
NoAcct == 0
\* A NULL BankAccount.account_setup_date.
NoDate == 0
\* self.pk is None: the instance has not been inserted yet.
NoPk == 0

Accts == 1..MaxAccts
\* Room for one opening-balance income per account and MaxIncomes others.
IncomeIds == 1..(MaxAccts + MaxIncomes)
ExpenseIds == 1..MaxExpenses
TransferIds == 1..MaxTransfers
Amounts == 1..MaxAmt
OpeningAmounts == 0..MaxAmt
Dates == 1..MaxDate

VARIABLES
    accounts,    \* BankAccount table
    incomes,     \* Income table
    expenses,    \* Expense table
    transfers,   \* Transfer table
    obCategory,  \* the user's "Opening Balance" income category exists
    scope,       \* the run: how many requests are served, which dates they submit, and
                 \* which balance and setup date an account update submits
    steps,       \* number of requests served
    last,        \* the request served last, with the balances before it
    prev,        \* the request before it, kept when it created an entry
    tx,          \* the requests in flight: each one's position, locals and pending writes
    order,       \* the requests that committed, in commit order
    job,         \* the reconciliation job: its position, locals and counters
    rev          \* the account update in progress: its position and locals

vars == <<accounts, incomes, expenses, transfers, obCategory, scope, steps, last, prev,
          tx, order, job, rev>>

\* The two requests that run concurrently.
Procs == {"r1", "r2"}

\* ------------------------------------------------------------------ rows
FreeAccount == [st |-> "free", balance |-> 0, opening_balance |-> 0,
                setup |-> NoDate, active |-> FALSE]
GoneAccount == [FreeAccount EXCEPT !.st = "gone"]
FreeEntry == [st |-> "free", account |-> NoAcct, amount |-> 0, cat |-> "none", date |-> NoDate]
GoneEntry == [FreeEntry EXCEPT !.st = "gone"]
FreeTransfer == [st |-> "free", from |-> NoAcct, to |-> NoAcct, amount |-> 0, date |-> NoDate]
GoneTransfer == [FreeTransfer EXCEPT !.st = "gone"]

\* The key the next INSERT into a table gets (NoPk: the model's table is full).
NextPk(tbl) ==
    IF \E i \in DOMAIN tbl : tbl[i].st = "free"
    THEN CHOOSE i \in DOMAIN tbl : tbl[i].st = "free" /\ \A j \in DOMAIN tbl : tbl[j].st = "free" => i <= j
    ELSE NoPk

Live(tbl) == {i \in DOMAIN tbl : tbl[i].st = "live"}

\* The balance column, as a function of the account key.
Balances(accts) == [a \in Accts |-> accts[a].balance]

RECURSIVE SumAmount(_, _)
SumAmount(tbl, ids) ==
    IF ids = {} THEN 0
    ELSE LET i == CHOOSE x \in ids : TRUE IN tbl[i].amount + SumAmount(tbl, ids \ {i})

\* --------------------------------------------------------- storage layer
\* BankAccount.objects.filter(pk=a).update(balance=F('balance') + d):
\* a relative update of the stored value; no row matches a deleted account.
F_update(accts, a, d) ==
    IF a # NoAcct /\ accts[a].st = "live"
    THEN [accts EXCEPT ![a].balance = @ + d]
    ELSE accts

\* A save() or delete() issues a sequence of such updates, one statement each:
\* <<account, delta>> pairs, in the order the code issues them.
RECURSIVE F_updates(_, _)
F_updates(accts, us) ==
    IF us = <<>> THEN accts
    ELSE F_updates(F_update(accts, us[1][1], us[1][2]), Tail(us))

\* ------------------------------------------------------------ Income.save
\* is_new: add the amount to the account.
Income_new(a, amt) == << <<a, amt>> >>

\* Account changed: reverse the old amount on the old account, add the new
\* amount to the new account.
Income_account_changed(old_account, old_amount, a, amt) ==
    << <<old_account, -old_amount>>, <<a, amt>> >>

\* A faulty variant: the new amount is added without taking the old one out.
Income_amount_changed_absolute(a, old_amount, amt) == << <<a, amt>> >>

\* Amount changed: adjust the balance by the difference.
Income_amount_changed(a, old_amount, amt) == << <<a, amt - old_amount>> >>

\* A faulty variant: a save that changes nothing books the amount again.
Income_existing_rebooked(old_account, old_amount, a, amt) ==
    IF old_account # NoAcct /\ old_account # a
    THEN Income_account_changed(old_account, old_amount, a, amt)
    ELSE IF old_amount # amt
         THEN Income_amount_changed(a, old_amount, amt)
         ELSE Income_new(a, amt)

\* The decision table of an update of an existing Income.
Income_existing(old_account, old_amount, a, amt) ==
    IF old_account # NoAcct /\ old_account # a
    THEN Income_account_changed(old_account, old_amount, a, amt)
    ELSE IF old_amount # amt
         THEN Income_amount_changed(a, old_amount, amt)
         ELSE <<>>

\* The balance updates of Income.save(), issued only if the saved instance
\* has an account.
Income_save_updates(is_new, old_account, old_amount, a, amt) ==
    IF a # NoAcct
    THEN IF is_new THEN Income_new(a, amt)
         ELSE Income_existing(old_account, old_amount, a, amt)
    ELSE <<>>

\* Income.save(): the stored row is read back (old_amount, old_account) when
\* it exists, the row is written, and the balances follow.  pk = NoPk is a new
\* instance.
Income_save(accts, incs, pk, a, amt, cat, date) ==
    LET is_new == pk = NoPk
        id == IF is_new THEN NextPk(incs) ELSE pk
        row == [st |-> "live", account |-> a, amount |-> amt, cat |-> cat, date |-> date]
    IN [incomes |-> [incs EXCEPT ![id] = row],
        accounts |-> F_updates(accts, Income_save_updates(is_new, incs[id].account,
                                                          incs[id].amount, a, amt))]

\* A faulty variant: the balance is left as it is.
Income_delete_updates_none(a, amt) == <<>>

\* The balance update of Income.delete(): reverse the amount on the instance's
\* account, if it has one.
Income_delete_updates(a, amt) ==
    IF a # NoAcct THEN << <<a, -amt>> >> ELSE <<>>

\* A faulty variant: delete() dereferences the account without looking whether
\* there is one; without an account it raises and the row stays.
Income_delete_needs_account(accts, incs, pk) ==
    IF incs[pk].account = NoAcct
    THEN [incomes |-> incs, accounts |-> accts]
    ELSE [incomes |-> [incs EXCEPT ![pk] = GoneEntry],
          accounts |-> F_update(accts, incs[pk].account, -incs[pk].amount)]

\* Income.delete(): reverse, then remove the row.
Income_delete(accts, incs, pk) ==
    [incomes |-> [incs EXCEPT ![pk] = GoneEntry],
     accounts |-> F_updates(accts, Income_delete_updates(incs[pk].account, incs[pk].amount))]

\* ----------------------------------------------------------- Expense.save
Expense_new(a, amt) == << <<a, -amt>> >>

\* A faulty variant: the old account keeps the expense it no longer has.
Expense_account_changed_unreversed(old_account, old_amount, a, amt) ==
    << <<a, -amt>> >>

Expense_account_changed(old_account, old_amount, a, amt) ==
    << <<old_account, old_amount>>, <<a, -amt>> >>

Expense_amount_changed(a, old_amount, amt) == << <<a, -(amt - old_amount)>> >>

Expense_existing(old_account, old_amount, a, amt) ==
    IF old_account # NoAcct /\ old_account # a
    THEN Expense_account_changed(old_account, old_amount, a, amt)
    ELSE IF old_amount # amt
         THEN Expense_amount_changed(a, old_amount, amt)
         ELSE <<>>

Expense_save_updates(is_new, old_account, old_amount, a, amt) ==
    IF a # NoAcct
    THEN IF is_new THEN Expense_new(a, amt)
         ELSE Expense_existing(old_account, old_amount, a, amt)
    ELSE <<>>

Expense_save(accts, exps, pk, a, amt, date) ==
    LET is_new == pk = NoPk
        id == IF is_new THEN NextPk(exps) ELSE pk
        row == [st |-> "live", account |-> a, amount |-> amt, cat |-> "none", date |-> date]
    IN [expenses |-> [exps EXCEPT ![id] = row],
        accounts |-> F_updates(accts, Expense_save_updates(is_new, exps[id].account,
                                                           exps[id].amount, a, amt))]

Expense_delete_updates(a, amt) ==
    IF a # NoAcct THEN << <<a, amt>> >> ELSE <<>>

Expense_delete(accts, exps, pk) ==
    [expenses |-> [exps EXCEPT ![pk] = GoneEntry],
     accounts |-> F_updates(accts, Expense_delete_updates(exps[pk].account, exps[pk].amount))]

\* ---------------------------------------------------------- Transfer.save
\* A faulty variant: the destination is not credited.
Transfer_new_source_only(f, t, amt) == << <<f, -amt>> >>

\* is_new: deduct from the source, add to the destination.
Transfer_new(f, t, amt) == << <<f, -amt>>, <<t, amt>> >>

\* A faulty variant: the old destination is not reversed.
Transfer_accounts_changed_half(old_from, old_to, old_amount, f, t, amt) ==
    << <<old_from, old_amount>>, <<f, -amt>>, <<t, amt>> >>

\* accounts_changed: reverse the old transfer, apply the new one.
Transfer_accounts_changed(old_from, old_to, old_amount, f, t, amt) ==
    << <<old_from, old_amount>>, <<old_to, -old_amount>>, <<f, -amt>>, <<t, amt>> >>

\* amount_changed: adjust both accounts by the difference.
Transfer_amount_changed(f, t, old_amount, amt) ==
    << <<f, -(amt - old_amount)>>, <<t, amt - old_amount>> >>

Transfer_existing(old_from, old_to, old_amount, f, t, amt) ==
    LET accounts_changed == old_from # f \/ old_to # t
        amount_changed == old_amount # amt
    IN IF accounts_changed
       THEN Transfer_accounts_changed(old_from, old_to, old_amount, f, t, amt)
       ELSE IF amount_changed
            THEN Transfer_amount_changed(f, t, old_amount, amt)
            ELSE <<>>

Transfer_save_updates(is_new, old_from, old_to, old_amount, f, t, amt) ==
    IF is_new THEN Transfer_new(f, t, amt)
    ELSE Transfer_existing(old_from, old_to, old_amount, f, t, amt)

Transfer_save(accts, trs, pk, f, t, amt, date) ==
    LET is_new == pk = NoPk
        id == IF is_new THEN NextPk(trs) ELSE pk
        old == trs[id]
        row == [st |-> "live", from |-> f, to |-> t, amount |-> amt, date |-> date]
    IN [transfers |-> [trs EXCEPT ![id] = row],
        accounts |-> F_updates(accts, Transfer_save_updates(is_new, old.from, old.to,
                                                            old.amount, f, t, amt))]

\* A faulty variant: only the source leg is reversed.
Transfer_delete_updates_one_leg(f, t, amt) == << <<f, amt>> >>

\* The balance updates of Transfer.delete(): reverse both legs.
Transfer_delete_updates(f, t, amt) == << <<f, amt>>, <<t, -amt>> >>

\* Transfer.delete(): reverse, then remove the row.
Transfer_delete(accts, trs, pk) ==
    [transfers |-> [trs EXCEPT ![pk] = GoneTransfer],
     accounts |-> F_updates(accts, Transfer_delete_updates(trs[pk].from, trs[pk].to,
                                                           trs[pk].amount))]

\* ------------------------------------------------------ BankAccount.save
\* A faulty variant: the balance is not put to zero before the opening-balance
\* Income is created, so the amount is booked twice.
BankAccount_save_booked_twice(accts, incs, obc, b, d, act) ==
    LET pk == NextPk(accts)
        row == [st |-> "live", balance |-> b, opening_balance |-> b,
                setup |-> d, active |-> act]
        r == Income_save([accts EXCEPT ![pk] = row], incs, NoPk, pk, b, "OB", d)
    IN IF b # 0 /\ d # NoDate
       THEN [accounts |-> r.accounts, incomes |-> r.incomes, obCategory |-> TRUE]
       ELSE [accounts |-> [accts EXCEPT ![pk] = row], incomes |-> incs, obCategory |-> obc]

\* A new account: the row is inserted with the submitted balance; with a
\* non-zero balance and a setup date the balance is forced to zero and an
\* Income in the "Opening Balance" category adds it back.
BankAccount_save(accts, incs, obc, b, d, act) ==
    LET pk == NextPk(accts)
        row == [st |-> "live", balance |-> b, opening_balance |-> b,
                setup |-> d, active |-> act]
        inserted == [accts EXCEPT ![pk] = row]
    IN IF b # 0 /\ d # NoDate
       THEN LET zeroed == [inserted EXCEPT ![pk].balance = 0]
                r == Income_save(zeroed, incs, NoPk, pk, b, "OB", d)
            IN [accounts |-> r.accounts, incomes |-> r.incomes, obCategory |-> TRUE]
       ELSE [accounts |-> inserted, incomes |-> incs, obCategory |-> obc]

\* BankAccount.delete(): the foreign keys decide what happens to the ledger:
\* Income/Expense.bank_account are SET_NULL, Transfer.from_account/to_account
\* CASCADE (the rows are removed by the collector; Transfer.delete() is not run).
BankAccount_delete(accts, incs, exps, trs, pk) ==
    [accounts |-> [accts EXCEPT ![pk] = GoneAccount],
     incomes |-> [i \in IncomeIds |->
                    IF incs[i].st = "live" /\ incs[i].account = pk
                    THEN [incs[i] EXCEPT !.account = NoAcct] ELSE incs[i]],
     expenses |-> [e \in ExpenseIds |->
                    IF exps[e].st = "live" /\ exps[e].account = pk
                    THEN [exps[e] EXCEPT !.account = NoAcct] ELSE exps[e]],
     transfers |-> [t \in TransferIds |->
                    IF trs[t].st = "live" /\ (trs[t].from = pk \/ trs[t].to = pk)
                    THEN GoneTransfer ELSE trs[t]]]

\* ----------------------------------------------------------------- forms
\* The accounts a form offers: BankAccount.objects.filter(user=user, is_active=True).
FormAccounts(accts) == {a \in Accts : accts[a].st = "live" /\ accts[a].active}

\* A faulty variant: the date is not compared with the setup date.
DateAllowed_any(accts, a, date) == TRUE

\* IncomeForm.clean / ExpenseForm.clean: the date is not before the setup date
\* of the chosen account.
DateAllowed(accts, a, date) ==
    accts[a].setup # NoDate => date >= accts[a].setup

\* The categories IncomeForm offers: the user's income categories.
IncomeCategories(obc) == IF obc THEN {"OB", "Other"} ELSE {"Other"}

IncomeForm_valid(accts, obc, a, cat, date) ==
    /\ a \in FormAccounts(accts)
    /\ cat \in IncomeCategories(obc)
    /\ DateAllowed(accts, a, date)

ExpenseForm_valid(accts, a, date) ==
    /\ a \in FormAccounts(accts)
    /\ DateAllowed(accts, a, date)

\* A faulty variant: the two accounts are not compared.
TransferForm_valid_same_account(accts, trs, pk, f, t, amt, date) ==
    /\ f \in FormAccounts(accts)
    /\ t \in FormAccounts(accts)
    /\ DateAllowed(accts, f, date)
    /\ DateAllowed(accts, t, date)
    /\ amt # 0 =>
         LET available == accts[f].balance
                          + (IF pk # NoPk /\ trs[pk].from = f THEN trs[pk].amount ELSE 0)
         IN ~(available < amt)

\* TransferForm.clean: setup dates, distinct accounts, and a source balance
\* that covers the amount; when an existing transfer keeps its source, its old
\* amount is added back to what is available.
TransferForm_valid(accts, trs, pk, f, t, amt, date) ==
    /\ f \in FormAccounts(accts)
    /\ t \in FormAccounts(accts)
    /\ DateAllowed(accts, f, date)
    /\ DateAllowed(accts, t, date)
    /\ f # t
    /\ amt # 0 =>
         LET available == accts[f].balance
                          + (IF pk # NoPk /\ trs[pk].from = f THEN trs[pk].amount ELSE 0)
         IN ~(available < amt)

\* Income.is_opening_balance(): the income sits in the "Opening Balance" category.
is_opening_balance(inc) == inc.cat = "OB"

\* ------------------------------------------------- bank_account_update
\* The opening-balance Income the view looks up: the account's income in the
\* "Opening Balance" category dated at the account's setup date.
OpeningIncomes(accts, incs, pk) ==
    {i \in Live(incs) : /\ incs[i].account = pk
                        /\ incs[i].cat = "OB"
                        /\ incs[i].date = accts[pk].setup}

\* Net effect of every other entry of the account.
OtherTransactionsNet(incs, exps, trs, pk) ==
    SumAmount(incs, {i \in Live(incs) : incs[i].account = pk /\ incs[i].cat # "OB"})
    - SumAmount(exps, {e \in Live(exps) : exps[e].account = pk})
    + SumAmount(trs, {t \in Live(trs) : trs[t].to = pk})
    - SumAmount(trs, {t \in Live(trs) : trs[t].from = pk})

\* A faulty variant: the balance and setup-date fields of the form are open and
\* the instance is saved whole, so the submitted values are stored.
updated_account_saved_whole(row, sb, sd, opening, act) ==
    [row EXCEPT !.balance = sb, !.setup = sd, !.opening_balance = opening, !.active = act]

\* The stored row after updated_account.save(update_fields=[...]).  sb and sd
\* are the balance and the setup date submitted with the request: both form
\* fields are disabled on an existing account, the view puts old_balance and
\* old_setup_date back on the instance, and neither column is in update_fields.
updated_account_saved(row, sb, sd, opening, act) ==
    [row EXCEPT !.opening_balance = opening, !.active = act]

\* given: an opening balance was submitted (the field is optional); v: its value.
BankAccount_update(accts, incs, exps, trs, obc, pk, given, v, act, sb, sd) ==
    LET old_opening_balance == accts[pk].opening_balance
        old_setup_date == accts[pk].setup
        opening == IF given /\ v # 0 THEN v ELSE old_opening_balance
        opening_balance_changed == given /\ v # old_opening_balance
        saved == [accts EXCEPT ![pk] = updated_account_saved(accts[pk], sb, sd, opening, act)]
        found == OpeningIncomes(accts, incs, pk)
    IN IF ~opening_balance_changed
       THEN [accounts |-> saved, incomes |-> incs, obCategory |-> obc]
       ELSE IF found # {}
            THEN LET oi == CHOOSE i \in found : TRUE
                     r == Income_save(saved, incs, oi, incs[oi].account, v,
                                      incs[oi].cat, incs[oi].date)
                 IN [accounts |-> r.accounts, incomes |-> r.incomes, obCategory |-> obc]
            ELSE LET net == OtherTransactionsNet(incs, exps, trs, pk)
                     forced == [saved EXCEPT ![pk].balance = net]
                 IN IF old_setup_date # NoDate
                    THEN LET r == Income_save(forced, incs, NoPk, pk, v, "OB", old_setup_date)
                         IN [accounts |-> r.accounts, incomes |-> r.incomes,
                             obCategory |-> TRUE]
                    ELSE \* Income.objects.create(date=None) is refused by the
                         \* storage layer; the writes made before it stay.
                         [accounts |-> forced, incomes |-> incs, obCategory |-> TRUE]

\* Whether the view's lookups and inserts go through: .get() raises on more
\* than one match; an insert needs a key.
BankAccount_update_runs(accts, incs, pk, given, v) ==
    LET changed == given /\ v # accts[pk].opening_balance
        found == OpeningIncomes(accts, incs, pk)
    IN changed =>
         /\ Cardinality(found) <= 1
         /\ (found = {} /\ accts[pk].setup # NoDate) => NextPk(incs) # NoPk

\* -------------------------------------------------------------- history
\* What a report view has not computed for a target date.
NoSnapshot == [computed |-> FALSE, included |-> {}, balance |-> [a \in Accts |-> 0],
               total |-> 0]

\* date: the date submitted with a form the view did not accept; sel: the keys
\* a bulk request selects; shown: what a report view computed, per target date;
\* budget_data: what a view computed for the budgets it lists, by budget key;
\* daily_balances: the running balances the dashboard charts, by day and account.
NoRequest == [op |-> "none", kind |-> "none", pk |-> NoPk, pre |-> [a \in Accts |-> 0],
              oacct |-> NoAcct, oto |-> NoAcct, oamt |-> 0,
              nacct |-> NoAcct, nto |-> NoAcct, namt |-> 0,
              date |-> NoDate, sel |-> {}, shown |-> [c \in Dates |-> NoSnapshot],
              budget_data |-> <<>>, daily_balances |-> <<>>]

Request(op, kind, pk, oacct, oto, oamt, nacct, nto, namt) ==
    [op |-> op, kind |-> kind, pk |-> pk, pre |-> Balances(accounts),
     oacct |-> oacct, oto |-> oto, oamt |-> oamt,
     nacct |-> nacct, nto |-> nto, namt |-> namt,
     date |-> NoDate, sel |-> {}, shown |-> [c \in Dates |-> NoSnapshot],
     budget_data |-> <<>>, daily_balances |-> <<>>]

Served(req) ==
    /\ steps' = steps + 1
    /\ last' = req
    /\ prev' = IF last.op = "create" THEN last ELSE NoRequest
    /\ UNCHANGED <<scope, tx, order, job, rev>>

\* A request that has not arrived.
NoVals == [a |-> NoAcct, t |-> NoAcct, amt |-> 0]

IdleTx == [pc |-> "idle", out |-> "none", kind |-> "none", op |-> "none", pk |-> NoPk,
           new |-> NoVals, inst |-> NoVals, old |-> NoVals,
           mem |-> [a \in Accts |-> 0], rowlock |-> FALSE, row |-> "none",
           todo |-> <<>>, delta |-> [a \in Accts |-> 0], locked |-> {},
           nupd |-> 0, conc |-> FALSE]

\* The reconciliation job when it is not running.
IdleJob == [pc |-> "idle", todo |-> <<>>, mem |-> [a \in Accts |-> 0],
            income_total |-> 0, expense_total |-> 0, transfers_in |-> 0,
            transfers_out |-> 0, fixed_count |-> 0, runs |-> 0,
            reported |-> <<>>, raced |-> FALSE]

\* The account update view when no such request is being served.
IdleRev == [pc |-> "idle", out |-> "none", pk |-> NoPk, given |-> FALSE, v |-> 0,
            act |-> FALSE, old_opening_balance |-> 0, old_setup_date |-> NoDate,
            changed |-> FALSE, opening_income |-> NoPk,
            inst |-> [account |-> NoAcct, cat |-> "none", date |-> NoDate],
            other_incomes |-> 0, other_expenses |-> 0, transfers_in |-> 0,
            transfers_out |-> 0, raced |-> FALSE]

\* ----------------------------------------------------------------- state
Init ==
    /\ accounts = [a \in Accts |-> FreeAccount]
    /\ incomes = [i \in IncomeIds |-> FreeEntry]
    /\ expenses = [e \in ExpenseIds |-> FreeEntry]
    /\ transfers = [t \in TransferIds |-> FreeTransfer]
    /\ obCategory = FALSE
    /\ scope = [limit |-> MaxSteps, dates |-> Dates, balances |-> {0}, setups |-> {NoDate}]
    /\ steps = 0
    /\ last = NoRequest
    /\ prev = NoRequest
    /\ tx = [p \in Procs |-> IdleTx]
    /\ order = <<>>
    /\ job = IdleJob
    /\ rev = IdleRev

\* ----------------------------------------------------------------- views
bank_account_create ==
    \E b \in OpeningAmounts, d \in scope.dates \cup {NoDate}, act \in BOOLEAN :
        /\ steps < scope.limit
        /\ NextPk(accounts) # NoPk
        /\ (b # 0 /\ d # NoDate) => NextPk(incomes) # NoPk
        /\ LET r == BankAccount_save(accounts, incomes, obCategory, b, d, act)
           IN /\ accounts' = r.accounts
              /\ incomes' = r.incomes
              /\ obCategory' = r.obCategory
        /\ Served(Request("create", "account", NextPk(accounts), NoAcct, NoAcct, 0, NoAcct, NoAcct, b))
        /\ UNCHANGED <<expenses, transfers>>

bank_account_update ==
    \E pk \in Live(accounts), given \in BOOLEAN, v \in OpeningAmounts, act \in BOOLEAN,
       sb \in scope.balances, sd \in scope.setups :
        /\ steps < scope.limit
        /\ BankAccount_update_runs(accounts, incomes, pk, given, v)
        /\ LET r == BankAccount_update(accounts, incomes, expenses, transfers,
                                       obCategory, pk, given, v, act, sb, sd)
           IN /\ accounts' = r.accounts
              /\ incomes' = r.incomes
              /\ obCategory' = r.obCategory
        /\ Served(Request("update", "account", pk, NoAcct, NoAcct,
                          accounts[pk].opening_balance, NoAcct, NoAcct,
                          IF given THEN v ELSE accounts[pk].opening_balance))
        /\ UNCHANGED <<expenses, transfers>>

bank_account_delete ==
    \E pk \in Live(accounts) :
        /\ steps < scope.limit
        /\ LET r == BankAccount_delete(accounts, incomes, expenses, transfers, pk)
           IN /\ accounts' = r.accounts
              /\ incomes' = r.incomes
              /\ expenses' = r.expenses
              /\ transfers' = r.transfers
        /\ Served(Request("delete", "account", pk, NoAcct, NoAcct, 0, NoAcct, NoAcct, 0))
        /\ UNCHANGED obCategory

income_create ==
    \E a \in Accts, amt \in Amounts, cat \in {"OB", "Other"}, date \in scope.dates :
        /\ steps < scope.limit
        /\ IncomeForm_valid(accounts, obCategory, a, cat, date)
        /\ NextPk(incomes) # NoPk
        /\ LET r == Income_save(accounts, incomes, NoPk, a, amt, cat, date)
           IN /\ accounts' = r.accounts
              /\ incomes' = r.incomes
        /\ Served(Request("create", "income", NextPk(incomes), NoAcct, NoAcct, 0, a, NoAcct, amt))
        /\ UNCHANGED <<expenses, transfers, obCategory>>

income_update ==
    \E pk \in Live(incomes), a \in Accts, amt \in Amounts, cat \in {"OB", "Other"}, date \in scope.dates :
        /\ steps < scope.limit
        /\ IncomeForm_valid(accounts, obCategory, a, cat, date)
        /\ LET r == Income_save(accounts, incomes, pk, a, amt, cat, date)
           IN /\ accounts' = r.accounts
              /\ incomes' = r.incomes
        /\ Served(Request("update", "income", pk, incomes[pk].account, NoAcct,
                          incomes[pk].amount, a, NoAcct, amt))
        /\ UNCHANGED <<expenses, transfers, obCategory>>

income_delete ==
    \E pk \in Live(incomes) :
        /\ steps < scope.limit
        /\ ~is_opening_balance(incomes[pk])
        /\ LET r == Income_delete(accounts, incomes, pk)
           IN /\ accounts' = r.accounts
              /\ incomes' = r.incomes
        /\ Served(Request("delete", "income", pk, incomes[pk].account, NoAcct,
                          incomes[pk].amount, NoAcct, NoAcct, 0))
        /\ UNCHANGED <<expenses, transfers, obCategory>>

expense_create ==
    \E a \in Accts, amt \in Amounts, date \in scope.dates :
        /\ steps < scope.limit
        /\ ExpenseForm_valid(accounts, a, date)
        /\ NextPk(expenses) # NoPk
        /\ LET r == Expense_save(accounts, expenses, NoPk, a, amt, date)
           IN /\ accounts' = r.accounts
              /\ expenses' = r.expenses
        /\ Served(Request("create", "expense", NextPk(expenses), NoAcct, NoAcct, 0, a, NoAcct, amt))
        /\ UNCHANGED <<incomes, transfers, obCategory>>

expense_update ==
    \E pk \in Live(expenses), a \in Accts, amt \in Amounts, date \in scope.dates :
        /\ steps < scope.limit
        /\ ExpenseForm_valid(accounts, a, date)
        /\ LET r == Expense_save(accounts, expenses, pk, a, amt, date)
           IN /\ accounts' = r.accounts
              /\ expenses' = r.expenses
        /\ Served(Request("update", "expense", pk, expenses[pk].account, NoAcct,
                          expenses[pk].amount, a, NoAcct, amt))
        /\ UNCHANGED <<incomes, transfers, obCategory>>

expense_delete ==
    \E pk \in Live(expenses) :
        /\ steps < scope.limit
        /\ LET r == Expense_delete(accounts, expenses, pk)
           IN /\ accounts' = r.accounts
              /\ expenses' = r.expenses
        /\ Served(Request("delete", "expense", pk, expenses[pk].account, NoAcct,
                          expenses[pk].amount, NoAcct, NoAcct, 0))
        /\ UNCHANGED <<incomes, transfers, obCategory>>

transfer_create ==
    \E f \in Accts, t \in Accts, amt \in Amounts, date \in scope.dates :
        /\ steps < scope.limit
        /\ TransferForm_valid(accounts, transfers, NoPk, f, t, amt, date)
        /\ NextPk(transfers) # NoPk
        /\ LET r == Transfer_save(accounts, transfers, NoPk, f, t, amt, date)
           IN /\ accounts' = r.accounts
              /\ transfers' = r.transfers
        /\ Served(Request("create", "transfer", NextPk(transfers), NoAcct, NoAcct, 0, f, t, amt))
        /\ UNCHANGED <<incomes, expenses, obCategory>>

transfer_update ==
    \E pk \in Live(transfers), f \in Accts, t \in Accts, amt \in Amounts, date \in scope.dates :
        /\ steps < scope.limit
        /\ TransferForm_valid(accounts, transfers, pk, f, t, amt, date)
        /\ LET r == Transfer_save(accounts, transfers, pk, f, t, amt, date)
           IN /\ accounts' = r.accounts
              /\ transfers' = r.transfers
        /\ Served(Request("update", "transfer", pk, transfers[pk].from, transfers[pk].to,
                          transfers[pk].amount, f, t, amt))
        /\ UNCHANGED <<incomes, expenses, obCategory>>

transfer_delete ==
    \E pk \in Live(transfers) :
        /\ steps < scope.limit
        /\ LET r == Transfer_delete(accounts, transfers, pk)
           IN /\ accounts' = r.accounts
              /\ transfers' = r.transfers
        /\ Served(Request("delete", "transfer", pk, transfers[pk].from, transfers[pk].to,
                          transfers[pk].amount, NoAcct, NoAcct, 0))
        /\ UNCHANGED <<incomes, expenses, obCategory>>

Next ==
    \/ bank_account_create
    \/ bank_account_update
    \/ bank_account_delete
    \/ income_create
    \/ income_update
    \/ income_delete
    \/ expense_create
    \/ expense_update
    \/ expense_delete
    \/ transfer_create
    \/ transfer_update
    \/ transfer_delete

Spec == Init /\ [][Next]_vars

\* ----------------------------------------------------------- ledger sums
\* Sum of Income - Expense + Transfers-in - Transfers-out recorded against a.
LedgerSum(a) ==
    SumAmount(incomes, {i \in Live(incomes) : incomes[i].account = a})
    - SumAmount(expenses, {e \in Live(expenses) : expenses[e].account = a})
    + SumAmount(transfers, {t \in Live(transfers) : transfers[t].to = a})
    - SumAmount(transfers, {t \in Live(transfers) : transfers[t].from = a})

\* C1: every account's stored balance equals its ledger sum.
C1_BalanceEqualsLedger ==
    \A a \in Live(accounts) : accounts[a].balance = LedgerSum(a)

\* ------------------------------------------------- entry operations alone
\* The ledger after accounts were opened (BankAccount.save) with the given
\* opening balances and a setup date.  The entry views work on MaxAccts
\* accounts, account n opened with OpeningOf(n).
OpeningOf(n) == n % (MaxAmt + 1)

RECURSIVE Opened(_)
Opened(bals) ==
    IF bals = <<>>
    THEN [accounts |-> [a \in Accts |-> FreeAccount],
          incomes |-> [i \in IncomeIds |-> FreeEntry],
          obCategory |-> FALSE]
    ELSE LET s == Opened(SubSeq(bals, 1, Len(bals) - 1))
         IN BankAccount_save(s.accounts, s.incomes, s.obCategory, bals[Len(bals)], 1, TRUE)

OpsLedger == Opened([n \in 1..MaxAccts |-> OpeningOf(n)])

OpsInit ==
    /\ accounts = OpsLedger.accounts
    /\ incomes = OpsLedger.incomes
    /\ obCategory = OpsLedger.obCategory
    /\ expenses = [e \in ExpenseIds |-> FreeEntry]
    /\ transfers = [t \in TransferIds |-> FreeTransfer]
    /\ scope = [limit |-> OpSteps, dates |-> {1}, balances |-> {0}, setups |-> {NoDate}]
    /\ steps = 0
    /\ last = NoRequest
    /\ prev = NoRequest
    /\ tx = [p \in Procs |-> IdleTx]
    /\ order = <<>>
    /\ job = IdleJob
    /\ rev = IdleRev

OpsNext ==
    \/ income_create
    \/ income_update
    \/ income_delete
    \/ expense_create
    \/ expense_update
    \/ expense_delete
    \/ transfer_create
    \/ transfer_update
    \/ transfer_delete

OpsSpec == OpsInit /\ [][OpsNext]_vars

\* ------------------------------------------------- account operations
\* The account views, and the deletion of entries an account leaves behind,
\* on a ledger of two accounts: account 1 opened with balance 1 (it has its
\* opening-balance Income) and holding a salary Income, account 2 opened empty
\* and holding an Expense, and a Transfer from account 1 to account 2.
AcctLedger(n) ==
    LET s0 == Opened(<<1, 0>>)
        s1 == Income_save(s0.accounts, s0.incomes, NoPk, 1, n, "Other", 1)
        s2 == Expense_save(s1.accounts, [e \in ExpenseIds |-> FreeEntry], NoPk, 2, 1, 1)
        s3 == Transfer_save(s2.accounts, [t \in TransferIds |-> FreeTransfer], NoPk, 1, 2, 1, 1)
    IN [accounts |-> s3.accounts, incomes |-> s1.incomes, expenses |-> s2.expenses,
        transfers |-> s3.transfers, obCategory |-> s0.obCategory]

AcctInit ==
    /\ accounts = AcctLedger(MaxAmt).accounts
    /\ incomes = AcctLedger(MaxAmt).incomes
    /\ expenses = AcctLedger(MaxAmt).expenses
    /\ transfers = AcctLedger(MaxAmt).transfers
    /\ obCategory = AcctLedger(MaxAmt).obCategory
    /\ scope = [limit |-> AcctSteps, dates |-> Dates,
                balances |-> OpeningAmounts, setups |-> Dates \cup {NoDate}]
    /\ steps = 0
    /\ last = NoRequest
    /\ prev = NoRequest
    /\ tx = [p \in Procs |-> IdleTx]
    /\ order = <<>>
    /\ job = IdleJob
    /\ rev = IdleRev

AcctNext ==
    \/ bank_account_create
    \/ bank_account_update
    \/ bank_account_delete
    \/ income_delete
    \/ expense_delete

AcctSpec == AcctInit /\ [][AcctNext]_vars

\* ---------------------------------------------------- concurrent requests
\* Two requests run against a ledger of n = MaxAccts accounts, opened empty,
\* that holds an Income on account 1, a Transfer from account 1 to account 2
\* and an Expense on account n.  The tables hold the committed rows;
\* a request works in its own transaction (@transaction.atomic): what it writes
\* is pending until it commits, and the rows it wrote or locked stay locked
\* until then.
SeedLedger(n) ==
    LET s0 == Opened([k \in 1..n |-> 0])
        s1 == Income_save(s0.accounts, s0.incomes, NoPk, 1, MaxAmt, "Other", 1)
        s2 == Transfer_save(s1.accounts, [t \in TransferIds |-> FreeTransfer], NoPk, 1, 2, 1, 1)
        s3 == Expense_save(s2.accounts, [e \in ExpenseIds |-> FreeEntry], NoPk, n, 1, 1)
    IN [accounts |-> s3.accounts, incomes |-> s1.incomes,
        expenses |-> s3.expenses, transfers |-> s2.transfers]

Ledger == [accounts |-> accounts, incomes |-> incomes,
           expenses |-> expenses, transfers |-> transfers]

ConcInit ==
    /\ accounts = SeedLedger(MaxAccts).accounts
    /\ incomes = SeedLedger(MaxAccts).incomes
    /\ expenses = SeedLedger(MaxAccts).expenses
    /\ transfers = SeedLedger(MaxAccts).transfers
    /\ obCategory = FALSE
    /\ scope = [limit |-> 0, dates |-> {1}, balances |-> {0}, setups |-> {NoDate}]
    /\ steps = 0
    /\ last = NoRequest
    /\ prev = NoRequest
    /\ tx = [p \in Procs |-> IdleTx]
    /\ order = <<>>
    /\ job = IdleJob
    /\ rev = IdleRev

Kinds == {"income", "expense", "transfer"}

Others(p) == Procs \ {p}

InFlight(q) == tx[q].pc \notin {"idle", "done"}

TableOf(db, kind) ==
    CASE kind = "income" -> db.incomes
      [] kind = "expense" -> db.expenses
      [] OTHER -> db.transfers

\* The account(s) and the amount of a stored row.
RowVals(kind, row) ==
    IF kind = "transfer"
    THEN [a |-> row.from, t |-> row.to, amt |-> row.amount]
    ELSE [a |-> row.account, t |-> NoAcct, amt |-> row.amount]

\* The form of the request is valid against the committed rows.
FormValid(kind, pk, new) ==
    CASE kind = "income" -> IncomeForm_valid(accounts, obCategory, new.a, "Other", 1)
      [] kind = "expense" -> ExpenseForm_valid(accounts, new.a, 1)
      [] OTHER -> TransferForm_valid(accounts, transfers, pk, new.a, new.t, new.amt, 1)

\* The balance updates save() issues, by kind.
SaveUpdates(kind, is_new, old, new) ==
    CASE kind = "income" -> Income_save_updates(is_new, old.a, old.amt, new.a, new.amt)
      [] kind = "expense" -> Expense_save_updates(is_new, old.a, old.amt, new.a, new.amt)
      [] OTHER -> Transfer_save_updates(is_new, old.a, old.t, old.amt, new.a, new.t, new.amt)

\* The balance updates delete() issues, from the instance in memory.
DeleteUpdates(kind, inst) ==
    CASE kind = "income" -> Income_delete_updates(inst.a, inst.amt)
      [] kind = "expense" -> Expense_delete_updates(inst.a, inst.amt)
      [] OTHER -> Transfer_delete_updates(inst.a, inst.t, inst.amt)

\* Another transaction holds the lock of the row this request works on.
RowLockedByOther(p) ==
    \E q \in Others(p) : tx[q].rowlock /\ tx[q].kind = tx[p].kind /\ tx[q].pk = tx[p].pk

\* A faulty variant: the old row is read with a plain get(): no wait, no lock.
select_for_update_plain_get(p) == [waits |-> FALSE, locks |-> FALSE]

\* X.objects.select_for_update().get(pk=self.pk): waits for the row's lock and
\* holds it to the end of the transaction.
select_for_update(p) == [waits |-> RowLockedByOther(p), locks |-> TRUE]

\* A faulty variant: the balance is computed from the account object in memory and
\* written back.
F_statement_in_memory(p, a, d) == tx[p].mem[a] + d - accounts[a].balance

\* One update(balance=F('balance') + d) statement inside a transaction: the
\* pending change of account a after it, relative to the stored balance.
F_statement(p, a, d) == tx[p].delta[a] + d

\* The row written by the transaction t, on the tables of db: an INSERT takes
\* the next key, an UPDATE rewrites the row, a DELETE removes it if it is there.
RowWrite(db, t) ==
    LET tbl == TableOf(db, t.kind)
        id == IF t.op = "create" THEN NextPk(tbl) ELSE t.pk
        put == IF t.kind = "transfer"
               THEN [st |-> "live", from |-> t.new.a, to |-> t.new.t, amount |-> t.new.amt,
                     date |-> IF t.op = "create" THEN 1 ELSE tbl[id].date]
               ELSE [st |-> "live", account |-> t.new.a, amount |-> t.new.amt,
                     cat |-> IF t.op = "create"
                             THEN (IF t.kind = "income" THEN "Other" ELSE "none")
                             ELSE tbl[id].cat,
                     date |-> IF t.op = "create" THEN 1 ELSE tbl[id].date]
        gone == IF t.kind = "transfer" THEN GoneTransfer ELSE GoneEntry
        written == CASE t.row = "put" -> [tbl EXCEPT ![id] = put]
                     [] t.row = "del" /\ tbl[id].st = "live" -> [tbl EXCEPT ![id] = gone]
                     [] OTHER -> tbl
    IN [accounts |-> db.accounts,
        incomes |-> IF t.kind = "income" THEN written ELSE db.incomes,
        expenses |-> IF t.kind = "expense" THEN written ELSE db.expenses,
        transfers |-> IF t.kind = "transfer" THEN written ELSE db.transfers]

\* The ledger with the pending writes of p applied.
Pending(p) ==
    [RowWrite(Ledger, tx[p]) EXCEPT
       !.accounts = [a \in Accts |->
                       IF a \in tx[p].locked
                       THEN [accounts[a] EXCEPT !.balance = @ + tx[p].delta[a]]
                       ELSE accounts[a]]]

\* A faulty variant: no transaction; every statement executed so far stays.
Rollback_autocommit(p) == Pending(p)

\* @transaction.atomic on an exception: nothing the transaction wrote stays.
Rollback(p) == Ledger

\* The request committed: its locks are released, nothing is pending.
Finished(t, out) ==
    [t EXCEPT !.pc = "done", !.out = out, !.rowlock = FALSE, !.row = "none",
              !.todo = <<>>, !.delta = [a \in Accts |-> 0], !.locked = {},
              !.mem = [a \in Accts |-> 0]]

\* The request failed: its locks and its pending writes are dropped, and what
\* it was about plays no further part.
Failed(t) ==
    [IdleTx EXCEPT !.pc = "done", !.out = "failed", !.kind = t.kind, !.op = t.op,
                   !.nupd = t.nupd, !.conc = t.conc]

Untouched == UNCHANGED <<obCategory, scope, steps, last, prev, job, rev>>

StoredUnchanged == UNCHANGED <<accounts, incomes, expenses, transfers>>

\* A key is free for every create in flight.
RoomFor(p, kind) ==
    Cardinality({i \in DOMAIN TableOf(Ledger, kind) : TableOf(Ledger, kind)[i].st = "free"})
      > Cardinality({q \in Others(p) : InFlight(q) /\ tx[q].op = "create" /\ tx[q].kind = kind})

\* The requests are named in the order they arrive.
Arrives(p) ==
    /\ tx[p].pc = "idle"
    /\ p = "r2" => tx["r1"].pc # "idle"

Arrived(p, kind, op, pk, new) ==
    [IdleTx EXCEPT !.kind = kind, !.op = op, !.pk = pk, !.new = new,
                   !.mem = Balances(accounts),
                   !.conc = \/ \E q \in Others(p) : InFlight(q)
                            \/ job.pc \notin {"idle", "done"}
                            \/ rev.pc \notin {"idle", "done"}]

\* The view of a create: the form is validated, save() is entered.
BeginCreate(p) ==
    \E kind \in Kinds, a \in Accts, amt \in Amounts :
      \E t \in IF kind = "transfer" THEN Accts ELSE {NoAcct} :
        LET new == [a |-> a, t |-> t, amt |-> amt]
        IN /\ Arrives(p)
           /\ FormValid(kind, NoPk, new)
           /\ RoomFor(p, kind)
           /\ tx' = [tx EXCEPT ![p] = [Arrived(p, kind, "create", NoPk, new) EXCEPT !.pc = "write"]]
           /\ StoredUnchanged /\ Untouched /\ UNCHANGED order

\* The view of an update: the instance is loaded, the form is validated and
\* its data put on the instance, save() is entered.
BeginUpdate(p) ==
    \E kind \in Kinds, a \in Accts, amt \in Amounts :
      \E t \in IF kind = "transfer" THEN Accts ELSE {NoAcct} :
        \E pk \in Live(TableOf(Ledger, kind)) :
          LET new == [a |-> a, t |-> t, amt |-> amt]
          IN /\ Arrives(p)
             /\ FormValid(kind, pk, new)
             /\ tx' = [tx EXCEPT ![p] = [Arrived(p, kind, "update", pk, new) EXCEPT !.pc = "lock"]]
             /\ StoredUnchanged /\ Untouched /\ UNCHANGED order

\* The view of a delete: the instance is loaded, delete() is entered; the
\* reversal is computed from the loaded instance.
BeginDelete(p) ==
    \E kind \in Kinds :
      \E pk \in Live(TableOf(Ledger, kind)) :
        LET row == TableOf(Ledger, kind)[pk]
            inst == RowVals(kind, row)
            todo == DeleteUpdates(kind, inst)
        IN /\ Arrives(p)
           /\ kind = "income" => ~is_opening_balance(row)
           /\ tx' = [tx EXCEPT ![p] = [Arrived(p, kind, "delete", pk, NoVals) EXCEPT
                                         !.inst = inst, !.todo = todo,
                                         !.pc = IF todo = <<>> THEN "delrow" ELSE "updates"]]
           /\ StoredUnchanged /\ Untouched /\ UNCHANGED order

\* save() of an existing instance: the stored row is locked and read
\* (old_amount, old_account); a row that is gone raises DoesNotExist.
LockRow(p) ==
    LET s == select_for_update(p)
        row == TableOf(Ledger, tx[p].kind)[tx[p].pk]
    IN /\ tx[p].pc = "lock"
       /\ ~s.waits
       /\ tx' = IF row.st = "live"
                THEN [tx EXCEPT ![p].old = RowVals(tx[p].kind, row),
                                ![p].rowlock = s.locks,
                                ![p].pc = "write"]
                ELSE [tx EXCEPT ![p] = Failed(tx[p])]
       /\ StoredUnchanged /\ Untouched /\ UNCHANGED order

\* super().save(): the row is written (an UPDATE takes the row's lock); the
\* balance updates to issue follow from the old and the new values.
WriteRow(p) ==
    LET is_new == tx[p].op = "create"
        todo == SaveUpdates(tx[p].kind, is_new, tx[p].old, tx[p].new)
    IN /\ tx[p].pc = "write"
       /\ ~RowLockedByOther(p)
       /\ tx' = [tx EXCEPT ![p].rowlock = ~is_new,
                           ![p].row = "put",
                           ![p].todo = todo,
                           ![p].pc = IF todo = <<>> THEN "commit" ELSE "updates"]
       /\ StoredUnchanged /\ Untouched /\ UNCHANGED order

\* The next balance statement: it waits for the account row's lock, which it
\* then holds; no row matches an account that is gone.
UpdateBalance(p) ==
    LET u == Head(tx[p].todo)
        a == u[1]
        next == IF Len(tx[p].todo) > 1 THEN "updates"
                ELSE IF tx[p].op = "delete" THEN "delrow" ELSE "commit"
    IN /\ tx[p].pc = "updates"
       /\ IF a # NoAcct /\ accounts[a].st = "live"
          THEN /\ \A q \in Others(p) : a \notin tx[q].locked
               /\ tx' = [tx EXCEPT ![p].delta[a] = F_statement(p, a, u[2]),
                                   ![p].locked = @ \cup {a},
                                   ![p].nupd = @ + 1,
                                   ![p].todo = Tail(@),
                                   ![p].pc = next]
          ELSE tx' = [tx EXCEPT ![p].todo = Tail(@), ![p].pc = next]
       /\ StoredUnchanged /\ Untouched /\ UNCHANGED order

\* super().delete(): the row is removed (the DELETE takes the row's lock).
DeleteRow(p) ==
    /\ tx[p].pc = "delrow"
    /\ ~RowLockedByOther(p)
    /\ tx' = [tx EXCEPT ![p].rowlock = TRUE, ![p].row = "del", ![p].pc = "commit"]
    /\ StoredUnchanged /\ Untouched /\ UNCHANGED order

Store(db) ==
    /\ accounts' = db.accounts
    /\ incomes' = db.incomes
    /\ expenses' = db.expenses
    /\ transfers' = db.transfers

\* save()/delete() returns: the transaction commits.
Commit(p) ==
    /\ tx[p].pc = "commit"
    /\ Store(Pending(p))
    /\ tx' = [tx EXCEPT ![p] = Finished(tx[p], "committed")]
    /\ order' = Append(order, p)
    /\ Untouched

\* Any statement of the transaction may fail (a storage error, a deadlock
\* victim, a timeout): the exception leaves the atomic block.
Fail(p) ==
    /\ tx[p].pc \in {"lock", "write", "updates", "delrow", "commit"}
    /\ Store(Rollback(p))
    /\ tx' = [tx EXCEPT ![p] = Failed(tx[p])]
    /\ UNCHANGED order
    /\ Untouched

ConcNext ==
    \E p \in Procs :
        \/ BeginCreate(p)
        \/ BeginUpdate(p)
        \/ BeginDelete(p)
        \/ LockRow(p)
        \/ WriteRow(p)
        \/ UpdateBalance(p)
        \/ DeleteRow(p)
        \/ Commit(p)
        \/ Fail(p)

ConcSpec == ConcInit /\ [][ConcNext]_vars

\* ---------------------------------------------------- reconciliation job
\* recalculate_balances: Command.handle.  The command runs outside any
\* transaction, so each query and each save is a statement of its own; an
\* entry request (r1) may run between them.
\* The ledgers the job is started on: the ledger of the account operations as
\* it is, and after an account was created with a balance and no setup date.
LedgerCreated(l, b, act) ==
    LET r == BankAccount_save(l.accounts, l.incomes, l.obCategory, b, NoDate, act)
    IN [accounts |-> r.accounts, incomes |-> r.incomes, expenses |-> l.expenses,
        transfers |-> l.transfers, obCategory |-> r.obCategory]

ReconLedgers ==
    {AcctLedger(MaxAmt)}
      \cup {LedgerCreated(AcctLedger(MaxAmt), b, act) : b \in Amounts, act \in BOOLEAN}

ReconInit ==
    /\ \E l \in ReconLedgers :
         /\ accounts = l.accounts
         /\ incomes = l.incomes
         /\ expenses = l.expenses
         /\ transfers = l.transfers
         /\ obCategory = l.obCategory
    /\ scope = [limit |-> 0, dates |-> {1}, balances |-> {0}, setups |-> {NoDate}]
    /\ steps = 0
    /\ last = NoRequest
    /\ prev = NoRequest
    /\ tx = [p \in Procs |-> IdleTx]
    /\ order = <<>>
    /\ job = IdleJob
    /\ rev = IdleRev

\* BankAccount.objects.filter(is_active=True), in Meta.ordering (newest first).
ActiveAccounts(accts) == {a \in Accts : accts[a].st = "live" /\ accts[a].active}

RECURSIVE Descending(_)
Descending(S) ==
    IF S = {} THEN <<>>
    ELSE LET m == CHOOSE x \in S : \A y \in S : y <= x
         IN <<m>> \o Descending(S \ {m})

\* A faulty variant: the outgoing transfers are added instead of subtracted.
calculated_balance_out_added(j) ==
    j.income_total - j.expense_total + j.transfers_in + j.transfers_out

\* A faulty variant: the account objects come without their stored balance.
evaluated_accounts_blank(accts) == [a \in Accts |-> 0]

\* The balances of the account objects in memory once the queryset is evaluated.
evaluated_accounts(accts) == Balances(accts)

calculated_balance(j) ==
    j.income_total - j.expense_total + j.transfers_in - j.transfers_out

JobStays ==
    UNCHANGED <<incomes, expenses, transfers, obCategory, scope, steps, last, prev, tx, order,
                rev>>

\* The loop is entered: the queryset is evaluated, the active accounts are in
\* memory with the balances stored at this moment.
handle_start ==
    /\ job.pc \in {"idle", "done"}
    /\ job.runs < MaxRuns
    /\ LET todo == Descending(ActiveAccounts(accounts))
       IN job' = [IdleJob EXCEPT !.pc = IF todo = <<>> THEN "done" ELSE "income_total",
                                 !.todo = todo,
                                 !.mem = evaluated_accounts(accounts),
                                 !.runs = job.runs + 1,
                                 !.reported = IF job.pc = "done"
                                              THEN Append(job.reported, job.fixed_count)
                                              ELSE <<>>,
                                 !.raced = \E p \in Procs : InFlight(p)]
    /\ UNCHANGED accounts
    /\ JobStays

handle_income_total ==
    /\ job.pc = "income_total"
    /\ job' = [job EXCEPT
                 !.income_total =
                    SumAmount(incomes, {i \in Live(incomes) : incomes[i].account = Head(job.todo)}),
                 !.pc = "expense_total"]
    /\ UNCHANGED accounts
    /\ JobStays

handle_expense_total ==
    /\ job.pc = "expense_total"
    /\ job' = [job EXCEPT
                 !.expense_total =
                    SumAmount(expenses, {e \in Live(expenses) : expenses[e].account = Head(job.todo)}),
                 !.pc = "transfers_in"]
    /\ UNCHANGED accounts
    /\ JobStays

handle_transfers_in ==
    /\ job.pc = "transfers_in"
    /\ job' = [job EXCEPT
                 !.transfers_in =
                    SumAmount(transfers, {t \in Live(transfers) : transfers[t].to = Head(job.todo)}),
                 !.pc = "transfers_out"]
    /\ UNCHANGED accounts
    /\ JobStays

handle_transfers_out ==
    /\ job.pc = "transfers_out"
    /\ job' = [job EXCEPT
                 !.transfers_out =
                    SumAmount(transfers, {t \in Live(transfers) : transfers[t].from = Head(job.todo)}),
                 !.pc = "check"]
    /\ UNCHANGED accounts
    /\ JobStays

\* if account.balance != calculated_balance: the balance in memory is compared,
\* the calculated one is saved (the UPDATE waits for a lock on the account's
\* row) and counted; then the loop goes on to the next account.
handle_check ==
    LET a == Head(job.todo)
        rest == Tail(job.todo)
        next == [job EXCEPT !.todo = rest, !.income_total = 0, !.expense_total = 0,
                            !.transfers_in = 0, !.transfers_out = 0,
                            !.pc = IF rest = <<>> THEN "done" ELSE "income_total"]
    IN /\ job.pc = "check"
       /\ IF job.mem[a] # calculated_balance(job)
          THEN /\ \A p \in Procs : a \notin tx[p].locked
               /\ accounts' = [accounts EXCEPT ![a].balance = calculated_balance(job)]
               /\ job' = [next EXCEPT !.fixed_count = @ + 1]
          ELSE /\ accounts' = accounts
               /\ job' = next
       /\ JobStays

ReconNext ==
    \/ handle_start
    \/ handle_income_total
    \/ handle_expense_total
    \/ handle_transfers_in
    \/ handle_transfers_out
    \/ handle_check
    \/ BeginCreate("r1")
    \/ BeginUpdate("r1")
    \/ BeginDelete("r1")
    \/ LockRow("r1")
    \/ WriteRow("r1")
    \/ UpdateBalance("r1")
    \/ DeleteRow("r1")
    \/ Commit("r1")

ReconSpec == ReconInit /\ [][ReconNext]_vars

\* ------------------------------------------- account update, step by step
\* bank_account_update is not wrapped in a transaction: each query and each
\* save is a statement of its own, and an entry request (r1) may run between
\* them.  Only opening_income.save() and Income.objects.create() are atomic
\* (Income.save); each is one step here, taken when the locks it needs are free.
RevStays == UNCHANGED <<expenses, transfers, scope, steps, last, prev, tx, order, job>>

AccountRowFree(a) == \A p \in Procs : a \notin tx[p].locked

\* The view is entered: the account and its old values are read, the form is
\* valid, and when the opening balance changes the opening-balance Income is
\* looked up.
update_begin ==
    \E pk \in Live(accounts), given \in BOOLEAN, v \in OpeningAmounts, act \in BOOLEAN :
        LET changed == given /\ v # accounts[pk].opening_balance
            found == OpeningIncomes(accounts, incomes, pk)
            oi == IF changed /\ found # {} THEN CHOOSE i \in found : TRUE ELSE NoPk
        IN /\ rev.pc = "idle"
           /\ BankAccount_update_runs(accounts, incomes, pk, given, v)
           /\ rev' = [IdleRev EXCEPT
                        !.pc = "save", !.pk = pk, !.given = given, !.v = v, !.act = act,
                        !.old_opening_balance = accounts[pk].opening_balance,
                        !.old_setup_date = accounts[pk].setup,
                        !.changed = changed,
                        !.opening_income = oi,
                        !.inst = IF oi = NoPk THEN IdleRev.inst
                                 ELSE [account |-> incomes[oi].account, cat |-> incomes[oi].cat,
                                       date |-> incomes[oi].date],
                        !.raced = \E p \in Procs : InFlight(p)]
           /\ UNCHANGED <<accounts, incomes, obCategory>>
           /\ RevStays

\* updated_account.save(update_fields=[...]); on the path that creates the
\* opening-balance Income the category is got or created just before.
update_save ==
    \E sb \in scope.balances, sd \in scope.setups :
        LET opening == IF rev.given /\ rev.v # 0 THEN rev.v ELSE rev.old_opening_balance
            creates == rev.changed /\ rev.opening_income = NoPk
        IN /\ rev.pc = "save"
           /\ AccountRowFree(rev.pk)
           /\ accounts' = [accounts EXCEPT
                             ![rev.pk] = updated_account_saved(@, sb, sd, opening, rev.act)]
           /\ obCategory' = (obCategory \/ creates)
           /\ rev' = IF ~rev.changed THEN [rev EXCEPT !.pc = "done", !.out = "saved"]
                     ELSE IF creates THEN [rev EXCEPT !.pc = "other_incomes"]
                     ELSE [rev EXCEPT !.pc = "income_save"]
           /\ UNCHANGED incomes
           /\ RevStays

\* opening_income.amount = new_opening_balance; opening_income.save(): the
\* instance found by the lookup is saved; Income.save locks and reads the
\* stored row and moves the balance by the difference.
update_income_save ==
    LET oi == rev.opening_income
        r == Income_save(accounts, incomes, oi, rev.inst.account, rev.v,
                         rev.inst.cat, rev.inst.date)
    IN /\ rev.pc = "income_save"
       /\ \A p \in Procs : ~(tx[p].rowlock /\ tx[p].kind = "income" /\ tx[p].pk = oi)
       /\ \A a \in {incomes[oi].account, rev.inst.account} \ {NoAcct} : AccountRowFree(a)
       /\ IF incomes[oi].st = "live"
          THEN /\ accounts' = r.accounts
               /\ incomes' = r.incomes
               /\ rev' = [rev EXCEPT !.pc = "done", !.out = "saved"]
          ELSE /\ UNCHANGED <<accounts, incomes>>
               /\ rev' = [rev EXCEPT !.pc = "done", !.out = "failed"]
       /\ UNCHANGED obCategory
       /\ RevStays

update_other_incomes ==
    /\ rev.pc = "other_incomes"
    /\ rev' = [rev EXCEPT
                 !.other_incomes =
                    SumAmount(incomes, {i \in Live(incomes) : /\ incomes[i].account = rev.pk
                                                             /\ incomes[i].cat # "OB"}),
                 !.pc = "other_expenses"]
    /\ UNCHANGED <<accounts, incomes, obCategory>>
    /\ RevStays

update_other_expenses ==
    /\ rev.pc = "other_expenses"
    /\ rev' = [rev EXCEPT
                 !.other_expenses =
                    SumAmount(expenses, {e \in Live(expenses) : expenses[e].account = rev.pk}),
                 !.pc = "transfers_in"]
    /\ UNCHANGED <<accounts, incomes, obCategory>>
    /\ RevStays

update_transfers_in ==
    /\ rev.pc = "transfers_in"
    /\ rev' = [rev EXCEPT
                 !.transfers_in =
                    SumAmount(transfers, {t \in Live(transfers) : transfers[t].to = rev.pk}),
                 !.pc = "transfers_out"]
    /\ UNCHANGED <<accounts, incomes, obCategory>>
    /\ RevStays

update_transfers_out ==
    /\ rev.pc = "transfers_out"
    /\ rev' = [rev EXCEPT
                 !.transfers_out =
                    SumAmount(transfers, {t \in Live(transfers) : transfers[t].from = rev.pk}),
                 !.pc = "force"]
    /\ UNCHANGED <<accounts, incomes, obCategory>>
    /\ RevStays

other_transactions_net(r) ==
    r.other_incomes - r.other_expenses + r.transfers_in - r.transfers_out

\* BankAccount.objects.filter(pk=account.pk).update(balance=other_transactions_net):
\* the stored balance is overwritten.
update_force_balance ==
    /\ rev.pc = "force"
    /\ AccountRowFree(rev.pk)
    /\ accounts' = [accounts EXCEPT ![rev.pk].balance = other_transactions_net(rev)]
    /\ rev' = [rev EXCEPT !.pc = "create_income"]
    /\ UNCHANGED <<incomes, obCategory>>
    /\ RevStays

\* Income.objects.create(...): the opening-balance Income is inserted and its
\* amount added to the balance; with no setup date the insert is refused.
update_create_income ==
    LET r == Income_save(accounts, incomes, NoPk, rev.pk, rev.v, "OB", rev.old_setup_date)
    IN /\ rev.pc = "create_income"
       /\ AccountRowFree(rev.pk)
       /\ IF rev.old_setup_date # NoDate
          THEN /\ accounts' = r.accounts
               /\ incomes' = r.incomes
               /\ rev' = [rev EXCEPT !.pc = "done", !.out = "saved"]
          ELSE /\ UNCHANGED <<accounts, incomes>>
               /\ rev' = [rev EXCEPT !.pc = "done", !.out = "failed"]
       /\ UNCHANGED obCategory
       /\ RevStays

RevInit ==
    /\ accounts = AcctLedger(MaxAmt).accounts
    /\ incomes = AcctLedger(MaxAmt).incomes
    /\ expenses = AcctLedger(MaxAmt).expenses
    /\ transfers = AcctLedger(MaxAmt).transfers
    /\ obCategory = AcctLedger(MaxAmt).obCategory
    /\ scope = [limit |-> 0, dates |-> {1}, balances |-> {0}, setups |-> {NoDate}]
    /\ steps = 0
    /\ last = NoRequest
    /\ prev = NoRequest
    /\ tx = [p \in Procs |-> IdleTx]
    /\ order = <<>>
    /\ job = IdleJob
    /\ rev = IdleRev

RevNext ==
    \/ update_begin
    \/ update_save
    \/ update_income_save
    \/ update_other_incomes
    \/ update_other_expenses
    \/ update_transfers_in
    \/ update_transfers_out
    \/ update_force_balance
    \/ update_create_income
    \/ BeginCreate("r1")
    \/ BeginUpdate("r1")
    \/ BeginDelete("r1")
    \/ LockRow("r1")
    \/ WriteRow("r1")
    \/ UpdateBalance("r1")
    \/ DeleteRow("r1")
    \/ Commit("r1")

RevSpec == RevInit /\ [][RevNext]_vars

\* ------------------------------------------------------------- reports
\* A faulty variant: the transfers received after the target date are added
\* instead of taken off.
historical_balance_in_added(accts, incs, exps, trs, a, c) ==
    accts[a].balance
    - SumAmount(incs, {i \in Live(incs) : incs[i].account = a /\ incs[i].date > c})
    + SumAmount(exps, {e \in Live(exps) : exps[e].account = a /\ exps[e].date > c})
    + SumAmount(trs, {t \in Live(trs) : trs[t].from = a /\ trs[t].date > c})
    + SumAmount(trs, {t \in Live(trs) : trs[t].to = a /\ trs[t].date > c})

\* The balance of account a as of target date c, as dashboard, monthly_summary
\* and annual_summary compute it: the stored balance, with every entry dated
\* after c taken back.
historical_balance(accts, incs, exps, trs, a, c) ==
    accts[a].balance
    - SumAmount(incs, {i \in Live(incs) : incs[i].account = a /\ incs[i].date > c})
    + SumAmount(exps, {e \in Live(exps) : exps[e].account = a /\ exps[e].date > c})
    + SumAmount(trs, {t \in Live(trs) : trs[t].from = a /\ trs[t].date > c})
    - SumAmount(trs, {t \in Live(trs) : trs[t].to = a /\ trs[t].date > c})

\* A faulty variant: every active account is taken, whenever it was set up.
accounts_existing_any_setup(accts, c) ==
    {a \in Accts : accts[a].st = "live" /\ accts[a].active}

\* filter(is_active=True, account_setup_date__lte=c): a NULL setup date
\* matches no comparison.
accounts_existing(accts, c) ==
    {a \in Accts : /\ accts[a].st = "live"
                   /\ accts[a].active
                   /\ accts[a].setup # NoDate
                   /\ accts[a].setup <= c}

RECURSIVE SumOver(_, _)
SumOver(f, S) ==
    IF S = {} THEN 0
    ELSE LET x == CHOOSE y \in S : TRUE IN f[x] + SumOver(f, S \ {x})

\* The loop over the accounts for one target date.
Snapshot(c) ==
    LET included == accounts_existing(accounts, c)
        balance == [a \in Accts |->
                      IF a \in included
                      THEN historical_balance(accounts, incomes, expenses, transfers, a, c)
                      ELSE 0]
    IN [computed |-> TRUE, included |-> included, balance |-> balance,
        total |-> SumOver(balance, included)]

StorageUnchanged == UNCHANGED <<accounts, incomes, expenses, transfers, obCategory>>

Shown(kind, targets) ==
    /\ Served([Request("show", kind, NoPk, NoAcct, NoAcct, 0, NoAcct, NoAcct, 0)
                 EXCEPT !.shown = [c \in Dates |->
                                     IF c \in targets THEN Snapshot(c) ELSE NoSnapshot]])
    /\ StorageUnchanged

\* The net-worth history: one total per month end of the past year.
dashboard ==
    /\ steps < scope.limit
    /\ Shown("dashboard", Dates)

\* The account balances as of the end of the selected month.
monthly_summary ==
    \E c \in Dates :
        /\ steps < scope.limit
        /\ Shown("monthly", {c})

\* The account balances as of the end of the selected year.
annual_summary ==
    \E c \in Dates :
        /\ steps < scope.limit
        /\ Shown("annual", {c})

\* The report views on a ledger that the create views extend: accounts set up
\* on different dates or on none, active or not, and entries dated before and
\* after a target date.
HistInit ==
    /\ accounts = AcctLedger(MaxAmt).accounts
    /\ incomes = AcctLedger(MaxAmt).incomes
    /\ expenses = AcctLedger(MaxAmt).expenses
    /\ transfers = AcctLedger(MaxAmt).transfers
    /\ obCategory = AcctLedger(MaxAmt).obCategory
    /\ scope = [limit |-> HistSteps, dates |-> Dates, balances |-> {0}, setups |-> {NoDate}]
    /\ steps = 0
    /\ last = NoRequest
    /\ prev = NoRequest
    /\ tx = [p \in Procs |-> IdleTx]
    /\ order = <<>>
    /\ job = IdleJob
    /\ rev = IdleRev

HistNext ==
    \/ bank_account_create
    \/ income_create
    \/ expense_create
    \/ transfer_create
    \/ dashboard
    \/ monthly_summary
    \/ annual_summary

HistSpec == HistInit /\ [][HistNext]_vars

\* ------------------------------------------------------ refused requests
\* form.is_valid() is false: the view renders the form again with its errors.
\* pk = NoPk is the create view, any other key the update view of that entry.
income_form_invalid ==
    \E pk \in {NoPk} \cup Live(incomes), a \in Accts, amt \in Amounts,
       cat \in {"OB", "Other"}, date \in scope.dates :
        /\ steps < scope.limit
        /\ ~IncomeForm_valid(accounts, obCategory, a, cat, date)
        /\ Served([Request("invalid", "income", pk,
                           IF pk = NoPk THEN NoAcct ELSE incomes[pk].account, NoAcct,
                           IF pk = NoPk THEN 0 ELSE incomes[pk].amount, a, NoAcct, amt)
                     EXCEPT !.date = date])
        /\ StorageUnchanged

expense_form_invalid ==
    \E pk \in {NoPk} \cup Live(expenses), a \in Accts, amt \in Amounts, date \in scope.dates :
        /\ steps < scope.limit
        /\ ~ExpenseForm_valid(accounts, a, date)
        /\ Served([Request("invalid", "expense", pk,
                           IF pk = NoPk THEN NoAcct ELSE expenses[pk].account, NoAcct,
                           IF pk = NoPk THEN 0 ELSE expenses[pk].amount, a, NoAcct, amt)
                     EXCEPT !.date = date])
        /\ StorageUnchanged

transfer_form_invalid ==
    \E pk \in {NoPk} \cup Live(transfers), f \in Accts, t \in Accts, amt \in Amounts,
       date \in scope.dates :
        /\ steps < scope.limit
        /\ ~TransferForm_valid(accounts, transfers, pk, f, t, amt, date)
        /\ Served([Request("invalid", "transfer", pk,
                           IF pk = NoPk THEN NoAcct ELSE transfers[pk].from,
                           IF pk = NoPk THEN NoAcct ELSE transfers[pk].to,
                           IF pk = NoPk THEN 0 ELSE transfers[pk].amount, f, t, amt)
                     EXCEPT !.date = date])
        /\ StorageUnchanged

\* income_delete on an opening-balance Income: an error message and a redirect.
income_delete_refused ==
    \E pk \in Live(incomes) :
        /\ steps < scope.limit
        /\ is_opening_balance(incomes[pk])
        /\ Served(Request("refused", "income", pk, incomes[pk].account, NoAcct,
                          incomes[pk].amount, NoAcct, NoAcct, 0))
        /\ StorageUnchanged

\* A faulty variant: the loop deletes every selected income.
RECURSIVE Incomes_bulk_delete_all(_, _, _)
Incomes_bulk_delete_all(accts, incs, ids) ==
    IF ids = {} THEN [accounts |-> accts, incomes |-> incs]
    ELSE LET pk == CHOOSE i \in ids : TRUE
             r == Income_delete(accts, incs, pk)
         IN Incomes_bulk_delete_all(r.accounts, r.incomes, ids \ {pk})

\* The loop of income_bulk_delete: each selected income that is not an
\* opening-balance Income is deleted with Income.delete().
RECURSIVE Incomes_bulk_delete(_, _, _)
Incomes_bulk_delete(accts, incs, ids) ==
    IF ids = {} THEN [accounts |-> accts, incomes |-> incs]
    ELSE LET pk == CHOOSE i \in ids : TRUE
             r == IF is_opening_balance(incs[pk])
                  THEN [accounts |-> accts, incomes |-> incs]
                  ELSE Income_delete(accts, incs, pk)
         IN Incomes_bulk_delete(r.accounts, r.incomes, ids \ {pk})

\* income_ids may name keys of no stored row: filter(pk__in=...) drops them.
income_bulk_delete ==
    \E ids \in SUBSET IncomeIds :
        /\ steps < scope.limit
        /\ ids # {}
        /\ LET r == Incomes_bulk_delete(accounts, incomes, ids \cap Live(incomes))
           IN /\ accounts' = r.accounts
              /\ incomes' = r.incomes
        /\ Served([Request("bulk_delete", "income", NoPk, NoAcct, NoAcct, 0, NoAcct, NoAcct, 0)
                     EXCEPT !.sel = ids])
        /\ UNCHANGED <<expenses, transfers, obCategory>>

\* The form views on a ledger of two accounts, account 1 set up on the first
\* date with balance 1 and account 2 on the last date with balance MaxAmt
\* (each has its opening-balance Income), an Income on account 1 and a
\* Transfer from account 2 to account 1.
FormLedger(n) ==
    LET s0 == Opened(<<1>>)
        s1 == BankAccount_save(s0.accounts, s0.incomes, s0.obCategory, n, MaxDate, TRUE)
        s2 == Income_save(s1.accounts, s1.incomes, NoPk, 1, 1, "Other", 1)
        s3 == Transfer_save(s2.accounts, [t \in TransferIds |-> FreeTransfer], NoPk,
                            2, 1, 1, MaxDate)
    IN [accounts |-> s3.accounts, incomes |-> s2.incomes, transfers |-> s3.transfers,
        obCategory |-> s1.obCategory]

FormInit ==
    /\ accounts = FormLedger(MaxAmt).accounts
    /\ incomes = FormLedger(MaxAmt).incomes
    /\ expenses = [e \in ExpenseIds |-> FreeEntry]
    /\ transfers = FormLedger(MaxAmt).transfers
    /\ obCategory = FormLedger(MaxAmt).obCategory
    /\ scope = [limit |-> FormSteps, dates |-> Dates, balances |-> {0}, setups |-> {NoDate}]
    /\ steps = 0
    /\ last = NoRequest
    /\ prev = NoRequest
    /\ tx = [p \in Procs |-> IdleTx]
    /\ order = <<>>
    /\ job = IdleJob
    /\ rev = IdleRev

FormNext ==
    \/ bank_account_create
    \/ bank_account_update
    \/ income_create
    \/ income_update
    \/ income_delete
    \/ income_delete_refused
    \/ income_bulk_delete
    \/ income_form_invalid
    \/ expense_create
    \/ expense_update
    \/ expense_form_invalid
    \/ transfer_create
    \/ transfer_update
    \/ transfer_form_invalid

FormSpec == FormInit /\ [][FormNext]_vars

\* ---------------------------------------------------------------- tenants
\* Every stored row has a user column, set when the row is created and in no
\* form's fields.  scope.user is the user of the session and scope.user_of the
\* user column of the stored rows, by table and key.
NoUser == 0

Users == 1..MaxUsers

Rows(kind) ==
    CASE kind = "account" -> accounts
      [] kind = "income" -> incomes
      [] kind = "expense" -> expenses
      [] OTHER -> transfers

Owner(kind, pk) == scope.user_of[kind][pk]

\* A faulty variant: the lookup does not filter on the user.
get_object_or_404_any_user(kind, pk) == pk \in Live(Rows(kind))

\* get_object_or_404(Model, pk=pk, user=request.user): TRUE when the row is
\* found, FALSE when the view answers 404.
get_object_or_404(kind, pk) ==
    /\ pk \in Live(Rows(kind))
    /\ Owner(kind, pk) = scope.user

\* The accounts the entry forms offer to the user of the session.
UserAccounts == {a \in FormAccounts(accounts) : Owner("account", a) = scope.user}

bank_account_update_by_user ==
    /\ bank_account_update
    /\ get_object_or_404("account", last'.pk)

bank_account_delete_by_user ==
    /\ bank_account_delete
    /\ get_object_or_404("account", last'.pk)

income_update_by_user ==
    /\ income_update
    /\ get_object_or_404("income", last'.pk)
    /\ last'.nacct \in UserAccounts

income_delete_by_user ==
    /\ income_delete
    /\ get_object_or_404("income", last'.pk)

expense_update_by_user ==
    /\ expense_update
    /\ get_object_or_404("expense", last'.pk)
    /\ last'.nacct \in UserAccounts

expense_delete_by_user ==
    /\ expense_delete
    /\ get_object_or_404("expense", last'.pk)

transfer_update_by_user ==
    /\ transfer_update
    /\ get_object_or_404("transfer", last'.pk)
    /\ last'.nacct \in UserAccounts
    /\ last'.nto \in UserAccounts

transfer_delete_by_user ==
    /\ transfer_delete
    /\ get_object_or_404("transfer", last'.pk)

\* Income.objects.filter(pk__in=income_ids, user=request.user), then the loop.
income_bulk_delete_by_user ==
    \E ids \in SUBSET IncomeIds :
        /\ steps < scope.limit
        /\ ids # {}
        /\ LET r == Incomes_bulk_delete(accounts, incomes,
                        {i \in ids : get_object_or_404("income", i)})
           IN /\ accounts' = r.accounts
              /\ incomes' = r.incomes
        /\ Served([Request("bulk_delete", "income", NoPk, NoAcct, NoAcct, 0, NoAcct, NoAcct, 0)
                     EXCEPT !.sel = ids])
        /\ UNCHANGED <<expenses, transfers, obCategory>>

\* An update or delete view whose lookup raises Http404: nothing after the
\* first line of the view runs.
not_found ==
    \E kind \in {"account", "income", "expense", "transfer"} :
        \E pk \in DOMAIN Rows(kind) :
            /\ steps < scope.limit
            /\ ~get_object_or_404(kind, pk)
            /\ Served(Request("not_found", kind, pk, NoAcct, NoAcct, 0, NoAcct, NoAcct, 0))
            /\ StorageUnchanged

\* Account a belongs to user ((a - 1) % MaxUsers) + 1.  Every account is
\* opened with balance n on the first date; the first MaxUsers accounts hold
\* an Income and, while there is room, an Expense; a Transfer runs between
\* the first two accounts of user 1.
AccountUser(a) == ((a - 1) % MaxUsers) + 1

RECURSIVE WithIncomes(_, _)
WithIncomes(s, k) ==
    IF k = 0 THEN s
    ELSE LET t == WithIncomes(s, k - 1)
             r == Income_save(t.accounts, t.incomes, NoPk, k, 1, "Other", 1)
         IN [t EXCEPT !.accounts = r.accounts, !.incomes = r.incomes]

RECURSIVE WithExpenses(_, _)
WithExpenses(s, k) ==
    IF k = 0 THEN s
    ELSE LET t == WithExpenses(s, k - 1)
             r == Expense_save(t.accounts, t.expenses, NoPk, k, 1, 1)
         IN [t EXCEPT !.accounts = r.accounts, !.expenses = r.expenses]

TenantLedger(n) ==
    LET s0 == Opened([a \in 1..MaxAccts |-> n])
        s1 == WithIncomes([accounts |-> s0.accounts, incomes |-> s0.incomes,
                           expenses |-> [e \in ExpenseIds |-> FreeEntry]], MaxUsers)
        s2 == WithExpenses(s1, MaxUsers)
        s3 == Transfer_save(s2.accounts, [t \in TransferIds |-> FreeTransfer], NoPk,
                            1, 1 + MaxUsers, 1, 1)
    IN [accounts |-> s3.accounts, incomes |-> s2.incomes, expenses |-> s2.expenses,
        transfers |-> s3.transfers, obCategory |-> s0.obCategory]

\* The user column of the rows of a ledger: an entry was created by the owner
\* of its account.
UserColumns(l) ==
    [account |-> [a \in Accts |-> IF l.accounts[a].st = "live" THEN AccountUser(a) ELSE NoUser],
     income |-> [i \in IncomeIds |-> IF l.incomes[i].st = "live"
                                     THEN AccountUser(l.incomes[i].account) ELSE NoUser],
     expense |-> [e \in ExpenseIds |-> IF l.expenses[e].st = "live"
                                       THEN AccountUser(l.expenses[e].account) ELSE NoUser],
     transfer |-> [t \in TransferIds |-> IF l.transfers[t].st = "live"
                                         THEN AccountUser(l.transfers[t].from) ELSE NoUser]]

TenantInit ==
    /\ accounts = TenantLedger(MaxAmt).accounts
    /\ incomes = TenantLedger(MaxAmt).incomes
    /\ expenses = TenantLedger(MaxAmt).expenses
    /\ transfers = TenantLedger(MaxAmt).transfers
    /\ obCategory = TenantLedger(MaxAmt).obCategory
    /\ \E u \in Users :
         scope = [limit |-> TenantSteps, dates |-> Dates, balances |-> {0},
                  setups |-> {NoDate}, user |-> u,
                  user_of |-> UserColumns(TenantLedger(MaxAmt))]
    /\ steps = 0
    /\ last = NoRequest
    /\ prev = NoRequest
    /\ tx = [p \in Procs |-> IdleTx]
    /\ order = <<>>
    /\ job = IdleJob
    /\ rev = IdleRev

TenantNext ==
    \/ bank_account_update_by_user
    \/ bank_account_delete_by_user
    \/ income_update_by_user
    \/ income_delete_by_user
    \/ income_bulk_delete_by_user
    \/ expense_update_by_user
    \/ expense_delete_by_user
    \/ transfer_update_by_user
    \/ transfer_delete_by_user
    \/ not_found

TenantSpec == TenantInit /\ [][TenantNext]_vars

\* ---------------------------------------------------------------- budgets
\* Dates of the budget views are days of MaxMonths months of DaysPerMonth days.
Months == 1..MaxMonths

MonthDates == 1..(MaxMonths * DaysPerMonth)

\* date__year / date__month of a date, as one month number.
MonthOf(d) == ((d - 1) \div DaysPerMonth) + 1

\* clean_month: the first day of the month.
FirstDay(m) == ((m - 1) * DaysPerMonth) + 1

BudgetIds == 1..MaxBudgets

Categories == {"Food", "Rent"}

Category_types == {"income", "expense"}

\* budgeted_amount has no validator: zero and negative amounts are stored.
BudgetAmounts == (0 - 1)..MaxAmt

\* The Decimal quotient keeps Scale units per whole.
Scale == 1000

\* Decimal division of n by d > 0, rounded half to even, in units of 1/Scale.
Decimal_div(n, d) ==
    LET q == (n * Scale) \div d
        r == (n * Scale) % d
    IN IF 2 * r > d \/ (2 * r = d /\ q % 2 = 1) THEN q + 1 ELSE q

\* The expenses MonthlyBudget.get_spent_amount filters.
Budget_expenses(b) ==
    {e \in Live(expenses) : /\ Owner("expense", e) = b.user
                            /\ expenses[e].cat = b.category
                            /\ MonthOf(expenses[e].date) = MonthOf(b.month)}

\* A faulty variant: the expenses of the category in every month.
get_spent_amount_any_month(b) ==
    IF scope.category_type[b.category] = "expense"
    THEN SumAmount(expenses, {e \in Live(expenses) : /\ Owner("expense", e) = b.user
                                                     /\ expenses[e].cat = b.category})
    ELSE 0

get_spent_amount(b) ==
    IF scope.category_type[b.category] = "expense"
    THEN SumAmount(expenses, Budget_expenses(b))
    ELSE 0

get_remaining_amount(b) == b.budgeted_amount - get_spent_amount(b)

\* In units of 1/Scale percent.
get_percentage_used(b) ==
    IF b.budgeted_amount > 0
    THEN Decimal_div(get_spent_amount(b), b.budgeted_amount) * 100
    ELSE 0

\* The entries of budget_data for the budgets a view lists.
Budget_data(ids) ==
    [b \in ids |-> [spent |-> get_spent_amount(scope.budgets[b]),
                    remaining |-> get_remaining_amount(scope.budgets[b]),
                    percentage |-> get_percentage_used(scope.budgets[b])]]

\* budget_list: the user's budgets, of the selected month when a year and a
\* month are given (NoDate: an empty filter lists every budget of the user).
budget_list ==
    \E m \in Months \cup {NoDate} :
        /\ steps < scope.limit
        /\ Served([Request("show", "budget_list", NoPk, NoAcct, NoAcct, 0, NoAcct, NoAcct, 0)
                     EXCEPT !.date = m,
                            !.budget_data =
                                Budget_data({b \in Live(scope.budgets) :
                                               /\ scope.budgets[b].user = scope.user
                                               /\ m # NoDate => scope.budgets[b].month = FirstDay(m)})])
        /\ StorageUnchanged

\* The budget tracking of the dashboard: the user's budgets of the current month.
dashboard_budgets ==
    \E m \in Months :
        /\ steps < scope.limit
        /\ Served([Request("show", "dashboard_budgets", NoPk, NoAcct, NoAcct, 0, NoAcct, NoAcct, 0)
                     EXCEPT !.date = m,
                            !.budget_data =
                                Budget_data({b \in Live(scope.budgets) :
                                               /\ scope.budgets[b].user = scope.user
                                               /\ MonthOf(scope.budgets[b].month) = m})])
        /\ StorageUnchanged

\* The stored expenses and budgets the budget views are applied to: any
\* expenses of any user, category (or none), day and amount, and any budgets.
BudgetExpenseRows ==
    {FreeEntry} \cup
    [st : {"live"}, account : {NoAcct}, amount : Amounts,
     cat : Categories \cup {"none"}, date : MonthDates]

BudgetRows ==
    [st : {"live"}, user : Users, category : Categories, month : {FirstDay(m) : m \in Months},
     budgeted_amount : BudgetAmounts]

BudgetInit ==
    /\ accounts = [a \in Accts |-> FreeAccount]
    /\ incomes = [i \in IncomeIds |-> FreeEntry]
    /\ expenses \in [ExpenseIds -> BudgetExpenseRows]
    /\ transfers = [t \in TransferIds |-> FreeTransfer]
    /\ obCategory = FALSE
    /\ \E u \in Users, eu \in [ExpenseIds -> Users], ct \in [Categories -> Category_types],
          bs \in [BudgetIds -> BudgetRows] :
         scope = [limit |-> BudgetSteps, dates |-> MonthDates, balances |-> {0}, setups |-> {NoDate},
                  user |-> u,
                  user_of |-> [expense |-> [e \in ExpenseIds |->
                                              IF expenses[e].st = "live" THEN eu[e] ELSE NoUser]],
                  category_type |-> ct,
                  budgets |-> bs]
    /\ steps = 0
    /\ last = NoRequest
    /\ prev = NoRequest
    /\ tx = [p \in Procs |-> IdleTx]
    /\ order = <<>>
    /\ job = IdleJob
    /\ rev = IdleRev

BudgetNext ==
    \/ budget_list
    \/ dashboard_budgets

BudgetSpec == BudgetInit /\ [][BudgetNext]_vars

\* ------------------------------------------------ entries and no account
\* Income.save() / Expense.save() called on a stored entry whose bank_account
\* has been set to None (the column is nullable; the forms require a value).
income_save_no_account ==
    \E pk \in Live(incomes), amt \in Amounts :
        /\ steps < scope.limit
        /\ LET r == Income_save(accounts, incomes, pk, NoAcct, amt,
                                incomes[pk].cat, incomes[pk].date)
           IN /\ accounts' = r.accounts
              /\ incomes' = r.incomes
        /\ Served(Request("update", "income", pk, incomes[pk].account, NoAcct,
                          incomes[pk].amount, NoAcct, NoAcct, amt))
        /\ UNCHANGED <<expenses, transfers, obCategory>>

expense_save_no_account ==
    \E pk \in Live(expenses), amt \in Amounts :
        /\ steps < scope.limit
        /\ LET r == Expense_save(accounts, expenses, pk, NoAcct, amt, expenses[pk].date)
           IN /\ accounts' = r.accounts
              /\ expenses' = r.expenses
        /\ Served(Request("update", "expense", pk, expenses[pk].account, NoAcct,
                          expenses[pk].amount, NoAcct, NoAcct, amt))
        /\ UNCHANGED <<incomes, transfers, obCategory>>

\* The entry updates and the account deletion on the ledger of AcctLedger:
\* deleting an account leaves its incomes and expenses without an account.
OrphanInit ==
    /\ accounts = AcctLedger(MaxAmt).accounts
    /\ incomes = AcctLedger(MaxAmt).incomes
    /\ expenses = AcctLedger(MaxAmt).expenses
    /\ transfers = AcctLedger(MaxAmt).transfers
    /\ obCategory = AcctLedger(MaxAmt).obCategory
    /\ scope = [limit |-> OrphanSteps, dates |-> Dates, balances |-> {0}, setups |-> {NoDate}]
    /\ steps = 0
    /\ last = NoRequest
    /\ prev = NoRequest
    /\ tx = [p \in Procs |-> IdleTx]
    /\ order = <<>>
    /\ job = IdleJob
    /\ rev = IdleRev

OrphanNext ==
    \/ bank_account_delete
    \/ income_update
    \/ expense_update
    \/ income_save_no_account
    \/ expense_save_no_account

OrphanSpec == OrphanInit /\ [][OrphanNext]_vars

\* ---------------------------------------------------- concurrent creates
\* Two create requests, statement by statement, on the opened accounts of
\* OpsLedger with no entry stored yet.
CreateRaceInit ==
    /\ accounts = OpsLedger.accounts
    /\ incomes = OpsLedger.incomes
    /\ obCategory = OpsLedger.obCategory
    /\ expenses = [e \in ExpenseIds |-> FreeEntry]
    /\ transfers = [t \in TransferIds |-> FreeTransfer]
    /\ scope = [limit |-> 0, dates |-> {1}, balances |-> {0}, setups |-> {NoDate}]
    /\ steps = 0
    /\ last = NoRequest
    /\ prev = NoRequest
    /\ tx = [p \in Procs |-> IdleTx]
    /\ order = <<>>
    /\ job = IdleJob
    /\ rev = IdleRev

CreateRaceNext ==
    \E p \in Procs :
        \/ BeginCreate(p)
        \/ WriteRow(p)
        \/ UpdateBalance(p)
        \/ Commit(p)
        \/ Fail(p)

CreateRaceSpec == CreateRaceInit /\ [][CreateRaceNext]_vars

\* ------------------------------------------------- daily running balance
\* Incomes minus expenses plus transfers in minus transfers out of account a
\* over the entries dated in D.
DatedNet(a, D) ==
    SumAmount(incomes, {i \in Live(incomes) : incomes[i].account = a /\ incomes[i].date \in D})
    - SumAmount(expenses, {e \in Live(expenses) : expenses[e].account = a /\ expenses[e].date \in D})
    + SumAmount(transfers, {t \in Live(transfers) : transfers[t].to = a /\ transfers[t].date \in D})
    - SumAmount(transfers, {t \in Live(transfers) : transfers[t].from = a /\ transfers[t].date \in D})

\* The days from first_day to min(last_day, today).
daily_dates(today) == {d \in MonthDates : MonthOf(d) = MonthOf(today) /\ d <= today}

\* Current balance minus the net change of the current month.
starting_balance(a, today) ==
    accounts[a].balance - DatedNet(a, {d \in MonthDates : MonthOf(d) = MonthOf(today)})

\* account_balance after the loop has added the day's entries of check_date d.
RECURSIVE account_balance(_, _, _)
account_balance(a, today, d) ==
    IF d \notin daily_dates(today) THEN starting_balance(a, today)
    ELSE account_balance(a, today, d - 1) + DatedNet(a, {d})

\* The dashboard's chart data: per active account, one balance per day.
dashboard_daily ==
    \E today \in MonthDates :
        /\ steps < scope.limit
        /\ Served([Request("show", "dashboard_daily", NoPk, NoAcct, NoAcct, 0, NoAcct, NoAcct, 0)
                     EXCEPT !.date = today,
                            !.daily_balances =
                                [d \in daily_dates(today) |->
                                   [a \in ActiveAccounts(accounts) |->
                                      account_balance(a, today, d)]]])
        /\ StorageUnchanged

\* The dashboard on the opened accounts of OpsLedger, with entries created on
\* any day of any month, before or after the day of the request.
DailyInit ==
    /\ accounts = OpsLedger.accounts
    /\ incomes = OpsLedger.incomes
    /\ obCategory = OpsLedger.obCategory
    /\ expenses = [e \in ExpenseIds |-> FreeEntry]
    /\ transfers = [t \in TransferIds |-> FreeTransfer]
    /\ scope = [limit |-> DailySteps, dates |-> MonthDates, balances |-> {0}, setups |-> {NoDate}]
    /\ steps = 0
    /\ last = NoRequest
    /\ prev = NoRequest
    /\ tx = [p \in Procs |-> IdleTx]
    /\ order = <<>>
    /\ job = IdleJob
    /\ rev = IdleRev

DailyNext ==
    \/ income_create
    \/ expense_create
    \/ transfer_create
    \/ dashboard_daily

DailySpec == DailyInit /\ [][DailyNext]_vars

\* -------------------------------------------------- claims on one request
\* The request served last is an op on an entry of the given kind.
LastIs(op, kind) == last.op = op /\ last.kind = kind

\* The request served last deleted the entry that the request before it created.
DeletedJustCreated(kind) ==
    /\ LastIs("delete", kind)
    /\ prev.op = "create" /\ prev.kind = kind /\ prev.pk = last.pk

\* The balances before the last request with d added to account a.
PreWith(a, d) == [last.pre EXCEPT ![a] = @ + d]

\* C5: creating an Income (Expense) of amount X on an account with balance b
\* makes the balance b+X (b-X); deleting that entry immediately afterwards
\* returns the balance to b; no other account's balance changes throughout.
C5_CreateDeleteRoundTrip ==
    /\ LastIs("create", "income") => Balances(accounts) = PreWith(last.nacct, last.namt)
    /\ LastIs("create", "expense") => Balances(accounts) = PreWith(last.nacct, -last.namt)
    /\ DeletedJustCreated("income") =>
         /\ last.pre = [prev.pre EXCEPT ![prev.nacct] = @ + prev.namt]
         /\ Balances(accounts) = prev.pre
    /\ DeletedJustCreated("expense") =>
         /\ last.pre = [prev.pre EXCEPT ![prev.nacct] = @ - prev.namt]
         /\ Balances(accounts) = prev.pre

C5_Witness ==
    /\ DeletedJustCreated("income")
    /\ last.pre # prev.pre
    /\ Balances(accounts) = prev.pre

\* C6: updating the amount of an Income (Expense) whose account stays the same
\* moves that account's balance by +(new - old) (-(new - old)), old being the
\* amount stored before the request, and moves no other balance.
C6_AmountDelta ==
    /\ (LastIs("update", "income") /\ last.oacct = last.nacct) =>
         Balances(accounts) = PreWith(last.nacct, last.namt - last.oamt)
    /\ (LastIs("update", "expense") /\ last.oacct = last.nacct) =>
         Balances(accounts) = PreWith(last.nacct, -(last.namt - last.oamt))

C6_Witness ==
    /\ LastIs("update", "expense")
    /\ last.oacct = last.nacct
    /\ last.namt > last.oamt
    /\ accounts[last.nacct].balance = last.pre[last.nacct] - (last.namt - last.oamt)

\* C7: moving an Income (Expense) from account A to another account B, with or
\* without a new amount, takes the old amount back out of A and applies the
\* new amount to B, added for an Income and subtracted for an Expense.
C7_AccountChange ==
    /\ (LastIs("update", "income") /\ last.oacct # NoAcct /\ last.oacct # last.nacct) =>
         Balances(accounts) = [last.pre EXCEPT ![last.oacct] = @ - last.oamt,
                                               ![last.nacct] = @ + last.namt]
    /\ (LastIs("update", "expense") /\ last.oacct # NoAcct /\ last.oacct # last.nacct) =>
         Balances(accounts) = [last.pre EXCEPT ![last.oacct] = @ + last.oamt,
                                               ![last.nacct] = @ - last.namt]

C7_Witness ==
    /\ LastIs("update", "income")
    /\ last.oacct # NoAcct /\ last.oacct # last.nacct
    /\ last.namt # last.oamt
    /\ accounts[last.oacct].balance = last.pre[last.oacct] - last.oamt
    /\ accounts[last.nacct].balance = last.pre[last.nacct] + last.namt

\* C8: creating a Transfer of X from A to B takes X from A and gives X to B;
\* deleting that Transfer restores both balances.
C8_TransferRoundTrip ==
    /\ LastIs("create", "transfer") =>
         Balances(accounts) = [last.pre EXCEPT ![last.nacct] = @ - last.namt,
                                               ![last.nto] = @ + last.namt]
    /\ DeletedJustCreated("transfer") => Balances(accounts) = prev.pre

C8_Witness ==
    /\ DeletedJustCreated("transfer")
    /\ last.pre[last.oacct] = prev.pre[last.oacct] - last.oamt
    /\ last.pre[last.oto] = prev.pre[last.oto] + last.oamt
    /\ Balances(accounts) = prev.pre

\* The balances after deleting the old transfer and creating the new one.
DeleteThenCreate(pre, of, ot, oamt, nf, nt, namt) ==
    [a \in Accts |-> pre[a]
                     + (IF a = of THEN oamt ELSE 0) - (IF a = ot THEN oamt ELSE 0)
                     - (IF a = nf THEN namt ELSE 0) + (IF a = nt THEN namt ELSE 0)]

\* C9: every update of a Transfer leaves the balances that deleting the old
\* transfer and creating the new one would leave.
C9_TransferUpdateAsDeleteCreate ==
    LastIs("update", "transfer") =>
        Balances(accounts) = DeleteThenCreate(last.pre, last.oacct, last.oto, last.oamt,
                                              last.nacct, last.nto, last.namt)

\* An update whose new source is the old destination and whose new destination
\* is a third account.
C9_Witness ==
    /\ LastIs("update", "transfer")
    /\ last.nacct = last.oto
    /\ last.nto \notin {last.oacct, last.oto}
    /\ last.namt # last.oamt
    /\ accounts[last.oacct].balance = last.pre[last.oacct] + last.oamt

\* C10: an update that changes neither the amount nor the account(s) of an
\* Income, Expense or Transfer leaves every balance as it was.
C10_NoChangeNoEffect ==
    /\ (last.op = "update" /\ last.kind \in {"income", "expense"}
          /\ last.oacct = last.nacct /\ last.oamt = last.namt) =>
         Balances(accounts) = last.pre
    /\ (LastIs("update", "transfer") /\ last.oacct = last.nacct /\ last.oto = last.nto
          /\ last.oamt = last.namt) =>
         Balances(accounts) = last.pre

C10_Witness ==
    /\ LastIs("update", "transfer")
    /\ last.oacct = last.nacct /\ last.oto = last.nto /\ last.oamt = last.namt
    /\ last.namt > 0
    /\ Balances(accounts) = last.pre

\* ------------------------------------------------ claims on two requests
\* The ledger after the request t was served alone on the ledger db, by the
\* view and save()/delete() run without interruption.
ServedAlone(db, t) ==
    CASE t.kind = "income" ->
           LET r == IF t.op = "delete"
                    THEN Income_delete(db.accounts, db.incomes, t.pk)
                    ELSE Income_save(db.accounts, db.incomes, t.pk, t.new.a, t.new.amt,
                                     IF t.op = "create" THEN "Other" ELSE db.incomes[t.pk].cat,
                                     IF t.op = "create" THEN 1 ELSE db.incomes[t.pk].date)
           IN [db EXCEPT !.accounts = r.accounts, !.incomes = r.incomes]
      [] t.kind = "expense" ->
           LET r == IF t.op = "delete"
                    THEN Expense_delete(db.accounts, db.expenses, t.pk)
                    ELSE Expense_save(db.accounts, db.expenses, t.pk, t.new.a, t.new.amt,
                                      IF t.op = "create" THEN 1 ELSE db.expenses[t.pk].date)
           IN [db EXCEPT !.accounts = r.accounts, !.expenses = r.expenses]
      [] OTHER ->
           LET r == IF t.op = "delete"
                    THEN Transfer_delete(db.accounts, db.transfers, t.pk)
                    ELSE Transfer_save(db.accounts, db.transfers, t.pk, t.new.a, t.new.t,
                                       t.new.amt,
                                       IF t.op = "create" THEN 1 ELSE db.transfers[t.pk].date)
           IN [db EXCEPT !.accounts = r.accounts, !.transfers = r.transfers]

\* The committed requests served one after the other, in commit order.
RECURSIVE Replay(_, _)
Replay(db, ord) ==
    IF ord = <<>> THEN db
    ELSE ServedAlone(Replay(db, SubSeq(ord, 1, Len(ord) - 1)), tx[ord[Len(ord)]])

BothCommitted(op) == Len(order) = 2 /\ \A p \in Procs : tx[p].op = op

Overlapped == \E p \in Procs : tx[p].conc

\* C2: when two transactions concurrently create entries, in every
\* interleaving the final balances reflect the deltas of both (they are the
\* balances of the two creates done one after the other): no update is lost.
C2_NoLostUpdate ==
    BothCommitted("create") =>
      /\ Ledger = Replay(SeedLedger(MaxAccts), order)
      /\ Balances(accounts) =
           Balances(F_updates(F_updates(SeedLedger(MaxAccts).accounts,
                                        SaveUpdates(tx["r1"].kind, TRUE, NoVals, tx["r1"].new)),
                              SaveUpdates(tx["r2"].kind, TRUE, NoVals, tx["r2"].new)))

\* A new Expense and a new Transfer out of the same account, both committed,
\* the second of them begun while the first was in its transaction.
C2_Witness ==
    /\ BothCommitted("create")
    /\ Overlapped
    /\ \E p \in Procs :
         /\ tx[p].kind = "expense"
         /\ \A q \in Others(p) : tx[q].kind = "transfer" /\ tx[q].new.a = tx[p].new.a

SameEntry == \A p, q \in Procs : tx[p].kind = tx[q].kind /\ tx[p].pk = tx[q].pk

\* C3: two concurrent updates of the same Income, Expense or Transfer are
\* serialized: the second to commit computed its delta from the values the
\* first committed, and the final ledger is that of the two updates applied
\* one after the other.
C3_UpdatesSerialized ==
    (BothCommitted("update") /\ SameEntry) =>
      /\ tx[order[2]].old = tx[order[1]].new
      /\ Ledger = Replay(SeedLedger(MaxAccts), order)

\* Two overlapping updates of the same entry have committed, and the first
\* changed the values the second had to read.
C3_Witness ==
    /\ BothCommitted("update")
    /\ SameEntry
    /\ Overlapped
    /\ tx[order[1]].new # tx[order[1]].old
    /\ tx[order[2]].new # tx[order[1]].new

\* Everything the committed request t wrote: its row and each balance update
\* that follows from the values it read.
WholeEffect(db, t) ==
    LET us == IF t.op = "delete" THEN DeleteUpdates(t.kind, t.inst)
              ELSE SaveUpdates(t.kind, t.op = "create", t.old, t.new)
        w == [t EXCEPT !.row = IF t.op = "delete" THEN "del" ELSE "put"]
    IN [RowWrite(db, w) EXCEPT !.accounts = F_updates(db.accounts, us)]

RECURSIVE Effects(_, _)
Effects(db, ord) ==
    IF ord = <<>> THEN db
    ELSE WholeEffect(Effects(db, SubSeq(ord, 1, Len(ord) - 1)), tx[ord[Len(ord)]])

\* C4: a save or delete is all-or-nothing: the stored ledger holds the row
\* write and every balance update of each request that committed and nothing
\* of a request in progress or failed, whatever it had written when it failed.
C4_AllOrNothing == Ledger = Effects(SeedLedger(MaxAccts), order)

\* A Transfer save failed after it had written the row and updated one of its
\* two endpoints, and the stored ledger is the one it found.
C4_Witness ==
    \E p \in Procs :
      /\ tx[p].kind = "transfer" /\ tx[p].op = "create"
      /\ tx[p].out = "failed" /\ tx[p].nupd = 1
      /\ order = <<>>
      /\ Ledger = SeedLedger(MaxAccts)

\* ------------------------------------------------ claims on the accounts
\* C11: deleting an Income or Expense whose account reference is absent
\* succeeds: the entry is removed and no account balance changes.
C11_DeleteWithoutAccount ==
    /\ (LastIs("delete", "income") /\ last.oacct = NoAcct) =>
         /\ incomes[last.pk].st = "gone"
         /\ Balances(accounts) = last.pre
    /\ (LastIs("delete", "expense") /\ last.oacct = NoAcct) =>
         /\ expenses[last.pk].st = "gone"
         /\ Balances(accounts) = last.pre

\* An Income with an amount, left behind by its deleted account, was deleted.
C11_Witness ==
    /\ LastIs("delete", "income")
    /\ last.oacct = NoAcct
    /\ last.oamt > 0
    /\ incomes[last.pk].st = "gone"

\* The request being served in this step (the step sets last).
Serving(op, kind) == last'.op = op /\ last'.kind = kind

\* The account is an endpoint of a stored Transfer.
TransferEndpoint(a) ==
    \E t \in Live(transfers) : transfers[t].from = a \/ transfers[t].to = a

\* C12: when an account that is an endpoint of a Transfer is hard-deleted, the
\* Transfer is removed and every surviving account whose balance equalled its
\* ledger sum before the deletion still equals its ledger sum after it.
C12_DeleteReversesTransfers ==
    [][(Serving("delete", "account") /\ TransferEndpoint(last'.pk)) =>
         /\ \A t \in Live(transfers) :
              (transfers[t].from = last'.pk \/ transfers[t].to = last'.pk)
                => transfers'[t].st = "gone"
         /\ \A a \in Live(accounts) \ {last'.pk} :
              accounts[a].balance = LedgerSum(a)
                => accounts'[a].balance = LedgerSum(a)']_vars

\* The Incomes recorded against account a.
IncomesOf(a) == {i \in Live(incomes) : incomes[i].account = a}

\* The last request created an account with a non-zero initial balance and a
\* setup date.
CreatedWithOpening ==
    /\ LastIs("create", "account")
    /\ last.namt # 0
    /\ accounts[last.pk].setup # NoDate

C14_OpeningIncomeAlways ==
    (LastIs("create", "account") /\ last.namt # 0) =>
      /\ \E i \in IncomesOf(last.pk) :
           incomes[i].cat = "OB" /\ incomes[i].amount = last.namt
      /\ accounts[last.pk].balance = LedgerSum(last.pk)

\* The request being served revises the opening balance of its account (in
\* the history of an account update, oamt is the stored opening balance and
\* namt the one asked for).
RevisingOpening == Serving("update", "account") /\ last'.namt # last'.oamt

\* C15: changing an account's opening balance from old to new when its
\* opening-balance Income exists sets that Income's amount and the account's
\* opening_balance to new and moves the balance by new - old; every other
\* Income, Expense and Transfer is untouched.
C15_OpeningRevised ==
    [][(RevisingOpening /\ OpeningIncomes(accounts, incomes, last'.pk) # {}) =>
         LET pk == last'.pk
             found == OpeningIncomes(accounts, incomes, pk)
         IN /\ \A i \in found : incomes'[i] = [incomes[i] EXCEPT !.amount = last'.namt]
            /\ \A i \in IncomeIds \ found : incomes'[i] = incomes[i]
            /\ accounts'[pk].opening_balance = last'.namt
            /\ accounts'[pk].balance = accounts[pk].balance + last'.namt - last'.oamt
            /\ expenses' = expenses
            /\ transfers' = transfers]_vars

\* The Incomes of account a in the "Opening Balance" category.
OpeningRowsOf(incs, a) ==
    {i \in Live(incs) : incs[i].account = a /\ incs[i].cat = "OB"}

\* C16: changing the opening balance of an account that has no opening-balance
\* Income sets the balance to the net effect of its other entries plus the new
\* amount and creates exactly one opening-balance Income of the new amount, so
\* that the balance equals the ledger sum.
C16_OpeningBootstrapped ==
    [][(RevisingOpening /\ OpeningRowsOf(incomes, last'.pk) = {}) =>
         \A pk \in Accts : pk = last'.pk =>
            /\ accounts'[pk].balance =
                 OtherTransactionsNet(incomes, expenses, transfers, pk) + last'.namt
            /\ Cardinality(OpeningRowsOf(incomes', pk)) = 1
            /\ \A i \in OpeningRowsOf(incomes', pk) : incomes'[i].amount = last'.namt
            /\ accounts'[pk].balance = LedgerSum(pk)']_vars

\* C17: an account update that does not change the opening balance leaves the
\* account's balance, opening balance and setup date as they were, whatever
\* balance and setup date are submitted; of the modelled columns only the
\* active flag can change, and no other row of the ledger changes.
C17_UpdatePreservesBalance ==
    [][(Serving("update", "account") /\ last'.namt = last'.oamt) =>
         /\ accounts' = [accounts EXCEPT ![last'.pk].active = accounts'[last'.pk].active]
         /\ incomes' = incomes
         /\ expenses' = expenses
         /\ transfers' = transfers]_vars

\* An account with a balance and a setup date was updated without a change of
\* its opening balance (the request submits every balance and setup date).
C17_Witness ==
    /\ LastIs("update", "account")
    /\ last.namt = last.oamt
    /\ accounts[last.pk].balance = MaxAmt
    /\ accounts[last.pk].balance = last.pre[last.pk]
    /\ accounts[last.pk].setup # NoDate
    /\ ~accounts[last.pk].active

\* ------------------------------------------ claims on the reconciliation
\* No entry request has arrived.
NoMutation == \A p \in Procs : tx[p].pc = "idle"

\* C18: after the reconciliation job has run with no concurrent mutation,
\* every active account's stored balance is its total Income minus Expense
\* plus Transfers in minus Transfers out, and the number of corrections it
\* reports is the number of active accounts whose stored balance differed.
C18_JobCorrects ==
    (job.pc = "done" /\ NoMutation) =>
      /\ \A a \in ActiveAccounts(accounts) : accounts[a].balance = LedgerSum(a)
      /\ job.fixed_count =
           Cardinality({a \in ActiveAccounts(accounts) : job.mem[a] # LedgerSum(a)})

\* The job ran once on a ledger with an active account whose balance had
\* drifted and corrected exactly that one.
C18_Witness ==
    /\ job.pc = "done" /\ job.runs = 1 /\ NoMutation
    /\ job.fixed_count = 1
    /\ Cardinality(ActiveAccounts(accounts)) = MaxAccts

\* C19: a second run of the job directly after the first, with no mutation in
\* between, makes no correction and writes nothing.
C19_SecondRunIdle ==
    (job.runs = 2 /\ NoMutation) =>
      /\ job.fixed_count = 0
      /\ Balances(accounts) = job.mem

\* The first run corrected an account, the second has finished.
C19_Witness ==
    /\ job.runs = 2 /\ job.pc = "done" /\ NoMutation
    /\ job.reported = <<1>>

\* The request and the job ran at the same time.
OverlappedJob == job.raced \/ \E p \in Procs : tx[p].conc

\* C20: when the job runs concurrently with an Income, Expense or Transfer
\* create, update or delete, then after both have completed every active
\* account's stored balance equals its ledger sum.
C20_JobSafeWithRequest ==
    (job.pc = "done" /\ tx["r1"].out = "committed" /\ OverlappedJob) =>
      \A a \in ActiveAccounts(accounts) : accounts[a].balance = LedgerSum(a)

\* ------------------------------------------------- claims on the reports
\* The signed effects of the entries of account a dated on or before c.
LedgerSumUpTo(a, c) ==
    SumAmount(incomes, {i \in Live(incomes) : incomes[i].account = a /\ incomes[i].date <= c})
    - SumAmount(expenses, {e \in Live(expenses) : expenses[e].account = a /\ expenses[e].date <= c})
    + SumAmount(transfers, {t \in Live(transfers) : transfers[t].to = a /\ transfers[t].date <= c})
    - SumAmount(transfers, {t \in Live(transfers) : transfers[t].from = a /\ transfers[t].date <= c})

\* The target dates a report was computed for.
Targets(req) == {c \in Dates : req.shown[c].computed}

\* C21: for every account whose stored balance equals its ledger sum and every
\* target date, the reconstructed balance equals the signed effects of the
\* account's entries dated on or before the target date; a report shows that
\* value for each account it includes, and serving it writes nothing.
C21_ReconstructedBalance ==
    [][/\ \A a \in Live(accounts), c \in Dates :
            accounts[a].balance = LedgerSum(a) =>
              historical_balance(accounts, incomes, expenses, transfers, a, c)
                = LedgerSumUpTo(a, c)
       /\ last'.op = "show" =>
            /\ StorageUnchanged
            /\ \A c \in Targets(last') : \A a \in last'.shown[c].included :
                 accounts[a].balance = LedgerSum(a) =>
                   last'.shown[c].balance[a] = LedgerSumUpTo(a, c)]_vars

\* A report was served for a target date with an Income, an Expense and a
\* Transfer dated after it on accounts it includes.
C21_Witness ==
    /\ last.op = "show"
    /\ \E c \in Targets(last) :
         /\ \E i \in Live(incomes) : /\ incomes[i].date > c
                                     /\ incomes[i].account \in last.shown[c].included
         /\ \E e \in Live(expenses) : /\ expenses[e].date > c
                                      /\ expenses[e].account \in last.shown[c].included
         /\ \E a \in last.shown[c].included :
              accounts[a].balance = LedgerSum(a) /\ LedgerSumUpTo(a, c) # LedgerSum(a)

\* C22: in every report, for every target date it computes, the accounts that
\* contribute are exactly the active accounts whose setup date is on or before
\* the target date, each with its reconstructed balance, and the total is the
\* sum of these contributions.
C22_OnlyAccountsSetUp ==
    last.op = "show" =>
      \A c \in Targets(last) :
        LET snap == last.shown[c]
        IN /\ \A a \in snap.included :
                accounts[a].setup # NoDate /\ accounts[a].setup <= c
           /\ \A a \in Live(accounts) :
                (accounts[a].active /\ accounts[a].setup # NoDate /\ accounts[a].setup <= c)
                  => /\ a \in snap.included
                     /\ snap.balance[a] =
                          historical_balance(accounts, incomes, expenses, transfers, a, c)
           /\ snap.total = SumOver(snap.balance, snap.included)

\* A report for a target date left out an active account set up later and
\* included the accounts set up by then.
C22_Witness ==
    /\ last.op = "show"
    /\ \E c \in Targets(last) :
         /\ last.shown[c].included # {}
         /\ \E a \in Live(accounts) :
              accounts[a].active /\ accounts[a].setup > c /\ a \notin last.shown[c].included

\* --------------------------------------------------- claims on the forms
\* A request was served in this step.
ServedNow == steps' = steps + 1

\* C23: a Transfer create or update whose source and destination are the same
\* account is refused by the form: no Transfer row is written or changed and
\* no balance changes.
C23_SameAccountRefused ==
    [][(/\ ServedNow
        /\ last'.kind = "transfer"
        /\ last'.op \in {"create", "update", "invalid"}
        /\ last'.nacct = last'.nto)
       => /\ last'.op = "invalid"
          /\ StorageUnchanged]_vars

\* An update of a stored Transfer to one account, with a date both allow and
\* an amount the source covers, was refused.
C23_Witness ==
    /\ last.op = "invalid" /\ last.kind = "transfer" /\ last.pk # NoPk
    /\ last.nacct = last.nto
    /\ last.nacct \in FormAccounts(accounts)
    /\ DateAllowed(accounts, last.nacct, last.date)
    /\ accounts[last.nacct].balance >= last.namt

\* C24: after a Transfer create or update that the form accepted has been
\* applied, the balance of the Transfer's source account is not below zero.
C24_SourceNotOverdrawn ==
    (last.kind = "transfer" /\ last.op \in {"create", "update"}) =>
      accounts[last.nacct].balance >= 0

\* Date d is before the setup date of account a.
Early(accts, a, d) ==
    /\ a \in Live(accts)
    /\ accts[a].setup # NoDate
    /\ d < accts[a].setup

\* No stored entry is dated before the setup date of an account it references.
EntriesDatedAfterSetup ==
    /\ \A i \in Live(incomes) : ~Early(accounts, incomes[i].account, incomes[i].date)
    /\ \A e \in Live(expenses) : ~Early(accounts, expenses[e].account, expenses[e].date)
    /\ \A t \in Live(transfers) : /\ ~Early(accounts, transfers[t].from, transfers[t].date)
                                  /\ ~Early(accounts, transfers[t].to, transfers[t].date)

\* The date submitted with the entry form served in this step: the refusing
\* branch records it, the accepting branch stores it in the row.
SubmittedDate ==
    IF last'.op = "invalid" THEN last'.date
    ELSE IF last'.kind = "income" THEN incomes'[last'.pk].date
    ELSE IF last'.kind = "expense" THEN expenses'[last'.pk].date
    ELSE transfers'[last'.pk].date

\* C25: an Income, Expense or Transfer form whose date is before the setup
\* date of an account it names is refused on create and on update and nothing
\* stored changes; after every request no stored entry is dated before the
\* setup date of an account it references.
C25_DateBeforeSetupRefused ==
    [][ServedNow =>
         /\ EntriesDatedAfterSetup'
         /\ (/\ last'.kind \in {"income", "expense", "transfer"}
             /\ last'.op \in {"create", "update", "invalid"}
             /\ \/ Early(accounts, last'.nacct, SubmittedDate)
                \/ Early(accounts, last'.nto, SubmittedDate))
            => /\ last'.op = "invalid"
               /\ StorageUnchanged]_vars

\* An Income update that moves the entry to an active account set up after the
\* submitted date was refused.
C25_Witness ==
    /\ last.op = "invalid" /\ last.kind = "income" /\ last.pk # NoPk
    /\ last.nacct \in FormAccounts(accounts)
    /\ last.nacct # last.oacct
    /\ Early(accounts, last.nacct, last.date)

\* The incomes in the "Opening Balance" category.
OpeningRows(incs) == {i \in Live(incs) : incs[i].cat = "OB"}

\* C26: neither income_delete nor income_bulk_delete deletes an
\* opening-balance Income: the row stays as it is and its amount stays in the
\* balance; bulk delete deletes every other selected income and takes each
\* one's amount off its account.
C26_OpeningIncomeProtected ==
    [][(/\ ServedNow
        /\ last'.kind = "income"
        /\ last'.op \in {"delete", "refused", "bulk_delete"})
       => /\ \A i \in OpeningRows(incomes) : incomes'[i] = incomes[i]
          /\ last'.op = "refused" => StorageUnchanged
          /\ last'.op = "bulk_delete" =>
               LET deleted == (last'.sel \cap Live(incomes)) \ OpeningRows(incomes)
               IN /\ \A i \in IncomeIds :
                       incomes'[i] = IF i \in deleted THEN GoneEntry ELSE incomes[i]
                  /\ \A a \in Accts :
                       accounts'[a].balance =
                         accounts[a].balance
                         - SumAmount(incomes, {i \in deleted : incomes[i].account = a})
                  /\ UNCHANGED <<expenses, transfers>>]_vars

\* A bulk delete selected an opening-balance Income, which is still stored,
\* together with another income of the same account, which is gone.
C26_Witness ==
    /\ last.op = "bulk_delete"
    /\ \E i \in last.sel \cap OpeningRows(incomes) :
         /\ accounts[incomes[i].account].balance = last.pre[incomes[i].account] - 1
         /\ \E j \in last.sel : incomes[j].st = "gone"

\* --------------------------------------- claims on the opening balance
\* C27: after any sequence of requests each account has at most one Income in
\* the "Opening Balance" category.
C27_OneOpeningIncome ==
    \A a \in Live(accounts) :
      Cardinality({i \in OpeningRows(incomes) : incomes[i].account = a}) <= 1

\* The entry request and the account update ran at the same time.
OverlappedUpdate == rev.raced \/ \E p \in Procs : tx[p].conc

\* C28: when an Income, Expense or Transfer is committed while the opening
\* balance of an account is being created or revised, then after both have
\* completed the account's balance equals its ledger sum.
C28_RevisionSafeWithRequest ==
    (/\ rev.pc = "done" /\ rev.out = "saved" /\ rev.changed
     /\ tx["r1"].out = "committed"
     /\ OverlappedUpdate)
    => accounts[rev.pk].balance = LedgerSum(rev.pk)

\* C29: a revision of the opening balance whose opening-balance Income cannot
\* be created (the account has no such Income and no setup date to date one)
\* leaves no partial change: the account row and the incomes are as before.
C29_RevisionAllOrNothing ==
    [][\A pk \in Accts :
         (/\ RevisingOpening
          /\ pk = last'.pk
          /\ OpeningIncomes(accounts, incomes, pk) = {}
          /\ accounts[pk].setup = NoDate)
         => UNCHANGED <<accounts, incomes, obCategory>>]_vars

\* The rows whose user column is not the user of the session stay as stored.
OtherUsersRowsUnchanged ==
    /\ \A a \in Accts : Owner("account", a) # scope.user => accounts'[a] = accounts[a]
    /\ \A i \in IncomeIds : Owner("income", i) # scope.user => incomes'[i] = incomes[i]
    /\ \A e \in ExpenseIds : Owner("expense", e) # scope.user => expenses'[e] = expenses[e]
    /\ \A t \in TransferIds : Owner("transfer", t) # scope.user => transfers'[t] = transfers[t]

SpentInMonth(bud) ==
    SumAmount(expenses,
              {e \in Live(expenses) :
                 /\ Owner("expense", e) = bud.user
                 /\ expenses[e].cat = bud.category
                 /\ expenses[e].date >= bud.month
                 /\ expenses[e].date < bud.month + DaysPerMonth})

BudgetShown == last.op = "show" /\ last.kind \in {"budget_list", "dashboard_budgets"}

\* C31: for every budget a view lists, spent is the sum of the owner's Expense
\* amounts of the budget's category dated in the budget's month (0 when the
\* category is not expense-type), remaining is budgeted minus spent, and
\* percentage is spent / budgeted * 100 (to the precision of the quotient)
\* when budgeted > 0 and 0 otherwise.
C31_BudgetDerivedValues ==
    BudgetShown =>
        \A b \in DOMAIN last.budget_data :
            LET bud == scope.budgets[b]
                d == last.budget_data[b]
                off == (d.percentage * bud.budgeted_amount) - (d.spent * 100 * Scale)
            IN /\ d.spent = IF scope.category_type[bud.category] = "expense"
                            THEN SpentInMonth(bud) ELSE 0
               /\ d.remaining = bud.budgeted_amount - d.spent
               /\ bud.budgeted_amount > 0 =>
                    /\ 2 * off <= 100 * bud.budgeted_amount
                    /\ 2 * (0 - off) <= 100 * bud.budgeted_amount
               /\ bud.budgeted_amount <= 0 => d.percentage = 0

\* A listed budget with money spent in its month, less than budgeted, while
\* the same user has an expense of the category in another month.
C31_Witness ==
    /\ BudgetShown
    /\ \E b \in DOMAIN last.budget_data :
         /\ last.budget_data[b].spent > 0
         /\ last.budget_data[b].remaining > 0
         /\ last.budget_data[b].percentage > 0
         /\ \E e \in Live(expenses) :
              /\ Owner("expense", e) = scope.budgets[b].user
              /\ expenses[e].cat = scope.budgets[b].category
              /\ MonthOf(expenses[e].date) # MonthOf(scope.budgets[b].month)

\* C32: an update of an Income or Expense stored without an account (its
\* account was deleted) that gives it an existing account applies the full
\* signed amount of the entry to that account.
C32_OrphanAdopted ==
    [][\A a \in Accts :
         /\ (/\ Serving("update", "income")
             /\ last'.oacct = NoAcct
             /\ last'.nacct = a)
            => accounts'[a].balance = accounts[a].balance + last'.namt
         /\ (/\ Serving("update", "expense")
             /\ last'.oacct = NoAcct
             /\ last'.nacct = a)
            => accounts'[a].balance = accounts[a].balance - last'.namt]_vars

\* C33: an update of an Income or Expense that leaves it without an account
\* takes the old signed amount of the entry back out of the account it had.
C33_AccountDropped ==
    [][\A a \in Accts :
         /\ (/\ Serving("update", "income")
             /\ last'.oacct = a
             /\ last'.nacct = NoAcct)
            => accounts'[a].balance = accounts[a].balance - last'.oamt
         /\ (/\ Serving("update", "expense")
             /\ last'.oacct = a
             /\ last'.nacct = NoAcct)
            => accounts'[a].balance = accounts[a].balance + last'.oamt]_vars

\* Both requests committed, they overlapped, and they were p's op1 and q's op2
\* of one and the same entry.
RacedOnEntry(op1, op2) ==
    \E p, q \in Procs :
        /\ p # q
        /\ tx[p].out = "committed" /\ tx[q].out = "committed"
        /\ tx[p].op = op1 /\ tx[q].op = op2
        /\ tx[p].kind = tx[q].kind /\ tx[p].pk = tx[q].pk
        /\ tx[p].conc \/ tx[q].conc

\* C34: after a delete of an entry that raced with an update of the same
\* entry, every account's balance equals its ledger sum.
C34_DeleteUpdateRace ==
    RacedOnEntry("delete", "update") =>
        \A a \in Live(accounts) : accounts[a].balance = LedgerSum(a)

\* C35: two deletes of one entry, each loaded before the other committed,
\* take the entry's effect back exactly once: afterwards every account's
\* balance equals its ledger sum.
C35_DeleteOnce ==
    RacedOnEntry("delete", "delete") =>
        \A a \in Live(accounts) : accounts[a].balance = LedgerSum(a)

\* C36: when two Transfers out of one source account were validated and
\* created by overlapping requests and neither was rejected, the balance of
\* the source is not below zero after both.
C36_ConcurrentTransfersCovered ==
    \A p, q \in Procs :
        (/\ p # q
         /\ tx[p].out = "committed" /\ tx[q].out = "committed"
         /\ tx[p].op = "create" /\ tx[q].op = "create"
         /\ tx[p].kind = "transfer" /\ tx[q].kind = "transfer"
         /\ tx[p].new.a = tx[q].new.a
         /\ tx[p].conc \/ tx[q].conc)
        => ~(accounts[tx[p].new.a].balance < 0)

\* C37: the opening_balance field of every account equals the amount of its
\* opening-balance Income whenever the account has that Income.
C37_OpeningFieldMatchesIncome ==
    \A a \in Live(accounts) :
        \A i \in OpeningRowsOf(incomes, a) :
            incomes[i].amount = accounts[a].opening_balance

\* The sum of the balances of all accounts.
TotalBalance(accts) == SumOver(Balances(accts), Accts)

\* C38: a request that creates, updates or deletes a Transfer between
\* existing accounts leaves the sum of all account balances as it was.
C38_TransferKeepsTotal ==
    [][(/\ ServedNow
        /\ last'.kind = "transfer"
        /\ last'.op \in {"create", "update", "delete"})
       => TotalBalance(accounts') = TotalBalance(accounts)]_vars

\* A Transfer was updated to another source, another destination and
\* another amount, and balances moved.
C38_Witness ==
    /\ LastIs("update", "transfer")
    /\ last.oacct # last.nacct
    /\ last.oto # last.nto
    /\ last.oamt # last.namt
    /\ Balances(accounts) # last.pre

\* C39: for each active account and each day d from the first of the current
\* month up to today, the dashboard's daily running balance for d equals the
\* historical balance reconstructed for d: the current balance with every
\* entry dated after d undone.
C39_DailyBalanceIsHistorical ==
    (last.op = "show" /\ last.kind = "dashboard_daily") =>
        \A d \in DOMAIN last.daily_balances :
            \A a \in DOMAIN last.daily_balances[d] :
                last.daily_balances[d][a]
                  = historical_balance(accounts, incomes, expenses, transfers, a, d)

====
